---- MODULE Spec2Model ----
(***************************************************************************)
(* PetroGeoSim: the Model -> Region -> Property tree, its seed spawning,   *)
(* configuration check and run loop, as a state machine over a heap of     *)
(* Python objects.  Property objects live in the sequence props (the index *)
(* is the object's identity), Region and Model objects in the functions    *)
(* regions and models.  A dict is a sequence of [key, id] entries in       *)
(* insertion order.                                                        *)
(***************************************************************************)
EXTENDS Integers, Sequences, FiniteSets, TLC

VARIABLES props, regions, models, built, last, simulation

vars == <<props, regions, models, built, last, simulation>>

(***************************************************************************)
(* Bounds of the model.                                                    *)
(***************************************************************************)
MaxCopies == 1       \* Property objects copy.deepcopy may add to the heap
MaxDraws == 4        \* values one generator may have produced after a run
MaxBuilt == 3        \* Property objects constructed in SpecBuild

RegionIds == {1, 2, 3, 4}
ModelIds == {1, 2}
SeedSet == {7, 8}            \* root seeds a Model is created with
SampleCounts == {2}          \* num_samples a Model is created with

None == "None"
DefaultNumSamples == 10000

(***************************************************************************)
(* distributions.py: DISTRIBUTIONS_KWARGS                                  *)
(***************************************************************************)
DistributionNames ==
    {"uniform", "normal", "beta", "lognormal", "triangular", "truncated normal"}

DISTRIBUTIONS_KWARGS ==
    [k \in DistributionNames |->
        CASE k = "uniform" -> {"min", "max"}
          [] k = "normal" -> {"mean", "std"}
          [] k = "beta" -> {"a", "b", "min", "max"}
          [] k = "lognormal" -> {"std", "shift", "mean"}
          [] k = "triangular" -> {"mode", "min", "max"}
          [] k = "truncated normal" -> {"min", "max", "mean", "std"}]

(***************************************************************************)
(* Python dict: insertion-ordered entries, unique keys.                    *)
(***************************************************************************)
DictKeys(d) == {d[i].key : i \in 1..Len(d)}

DictHas(d, k) == \E i \in 1..Len(d) : d[i].key = k

DictIndex(d, k) == CHOOSE i \in 1..Len(d) : d[i].key = k

DictGet(d, k) == d[DictIndex(d, k)].id

\* d[k] = v : replaces the value of an existing key in place, else appends
DictSet(d, k, v) ==
    IF DictHas(d, k)
    THEN [d EXCEPT ![DictIndex(d, k)] = [key |-> k, id |-> v]]
    ELSE Append(d, [key |-> k, id |-> v])

DictIds(d) == {d[i].id : i \in 1..Len(d)}

(***************************************************************************)
(* numpy.random.SeedSequence: entropy, spawn_key; the spawn counter of a   *)
(* Model's root seed is the Model's field n_children_spawned.              *)
(***************************************************************************)

NoSeed == [entropy |-> 0, spawn_key |-> <<>>]

\* seed.spawn(1)[0] for a root seed with n children spawned so far
SpawnChild(entropy, n) == [entropy |-> entropy, spawn_key |-> <<n>>]

(***************************************************************************)
(* Sample vectors and stats.  A sample vector is identified by what        *)
(* determines it: the distribution kind, the parameters, the seed, the     *)
(* position of the generator's stream and the size.                        *)
(***************************************************************************)
NoValues == [tag |-> "int", v |-> 0]          \* self.values = 0

NoStats == <<>>                                \* self.stats = {}

StatKeys == {"P90", "P50", "P10", "Mean", "Std"}

\* numpy.percentile: of a number or a vector of whole numbers the value
\* itself, of any other vector the computation that gives it
Percentile(values, q, method) ==
  LET
    \* numpy.percentile(values, q, method=method) of a vector of whole numbers,
    \* as 300 times its value: the element at the virtual index
    \* (n - 1) q / 100 (linear) or (n + 1/3) q / 100 - 2/3 (median_unbiased),
    \* kept within the vector, interpolated between its two neighbours
    PercentileOfSorted(s, q0, method0) ==
        LET n == Len(s)
            h == IF method0 = "linear" THEN 3 * (n - 1) * q0
                 ELSE q0 * (3 * n + 1) - 200
            hc == IF h < 0 THEN 0
                  ELSE IF h > 300 * (n - 1) THEN 300 * (n - 1) ELSE h
            lo == (hc \div 300) + 1
            hi == IF lo < n THEN lo + 1 ELSE n
        IN 300 * s[lo] + (s[hi] - s[lo]) * (hc % 300)
  IN
    CASE values.tag = "int" -> [tag |-> "x300", v |-> 300 * values.v]
      [] values.tag = "vec" ->
           [tag |-> "x300",
            v |-> PercentileOfSorted(
                     SortSeq(values.elems, LAMBDA a, b : a < b), q, method)]
      [] OTHER -> [fn |-> "percentile", q |-> q, method |-> method,
                   of |-> values]

\* as calculate_stats, but without the standard deviation
calculate_stats_NoStd(stats, values) ==
    [k \in (DOMAIN stats \cup StatKeys) \ {"Std"} |->
        CASE k = "P90" -> Percentile(values, 10, "linear")
          [] k = "P50" -> Percentile(values, 50, "linear")
          [] k = "P10" -> Percentile(values, 90, "linear")
          [] k = "Mean" -> [fn |-> "mean", of |-> values]
          [] OTHER -> stats[k]]

\* Property.calculate_stats: five entries of the dict self.stats are set,
\* numpy.percentile with its default method (linear)
calculate_stats(stats, values) ==
    [k \in DOMAIN stats \cup StatKeys |->
        CASE k = "P90" -> Percentile(values, 10, "linear")
          [] k = "P50" -> Percentile(values, 50, "linear")
          [] k = "P10" -> Percentile(values, 90, "linear")
          [] k = "Mean" -> [fn |-> "mean", of |-> values]
          [] k = "Std" -> [fn |-> "std", of |-> values]
          [] OTHER -> stats[k]]

(***************************************************************************)
(* Property.__init__ and Distribution.__init__                             *)
(***************************************************************************)
\* a distribution argument is a kind name, "" or None; an equation argument
\* is a formula or NoFormula (None)
NoFormula == [type |-> "None"]

\* Python truthiness of the distribution / equation argument
Truthy(s) == s # None /\ s # ""

\* the object Property.__init__ leaves behind when it does not raise; k is
\* the number of the OS entropy draw of Distribution.__init__
NewProperty(name, distribution, equation, num_samples, k) ==
  LET
    \* SeedSequence() : entropy drawn from the OS, never equal to another draw
    \* nor to a user-supplied seed; k counts the draws made so far
    SeedSequenceFresh(k0) == [entropy |-> 100 + k0, spawn_key |-> <<>>]
  IN
    IF Truthy(distribution)
    THEN [name |-> name, prop_type |-> "input",
          distribution |-> distribution, equation |-> NoFormula,
          seed |-> SeedSequenceFresh(k), draws |-> 0,
          num_samples |-> num_samples, params |-> <<>>,
          values |-> NoValues, stats |-> NoStats]
    ELSE [name |-> name, prop_type |-> "result",
          distribution |-> None, equation |-> equation,
          seed |-> NoSeed, draws |-> 0,
          num_samples |-> 0, params |-> <<>>,
          values |-> NoValues, stats |-> NoStats]

\* the exception Property.__init__ raises, or None
PropertyInitError(distribution, equation) ==
  LET
    TruthyFormula(eq) == eq.type # "None" /\ eq.len > 0
  IN
    IF Truthy(distribution) THEN None
    ELSE IF TruthyFormula(equation) THEN None
    ELSE "ValueError"

(***************************************************************************)
(* The heap: st = [props, regions, models, built].  An operation is an     *)
(* operator from a heap to [st, err]: the heap it leaves behind and the    *)
(* exception it raises (None when it returns).                             *)
(***************************************************************************)
Ok(st) == [st |-> st, err |-> None]

Raise(st, e) == [st |-> st, err |-> e]

(***************************************************************************)
(* Region.__contains__ and Region.add_properties                           *)
(***************************************************************************)
\* Region.__eq__ : names only
Region__eq__(r1, r2) == r1.name = r2.name

\* as Region__contains__, but looks in inputs only
Region__contains__InputsOnly(reg, name) == DictHas(reg.inputs, name)

\* Region.__contains__(other) for a Property named name
Region__contains__(reg, name) ==
    DictHas(reg.inputs, name) \/ DictHas(reg.results, name)

RECURSIVE RegionAddLoop(_, _, _, _)
RegionAddLoop(st, r, ps, i) ==
  LET
    \* the body of the loop of Region.add_properties for one Property object
    RegionInsert(reg, p, pid) ==
        IF p.prop_type = "input"
        THEN [reg EXCEPT !.inputs = DictSet(reg.inputs, p.name, pid)]
        ELSE [reg EXCEPT !.results = DictSet(reg.results, p.name, pid)]
  IN
    IF i > Len(ps) THEN Ok(st)
    ELSE LET p == st.props[ps[i]]
             reg == st.regions[r]
         IN IF Region__contains__(reg, p.name)
            THEN Raise(st, "KeyError")
            ELSE IF p.prop_type \notin {"input", "result"}
            THEN Raise(st, "KeyError")
            ELSE RegionAddLoop(
                    [st EXCEPT !.regions[r] = RegionInsert(reg, p, ps[i])],
                    r, ps, i + 1)

\* Region.add_properties(*props) on Region object r
Region_add_properties(st, r, ps) == RegionAddLoop(st, r, ps, 1)

(***************************************************************************)
(* Distribution.update and the loops that call it                          *)
(***************************************************************************)
\* as DistributionUpdate, but keeps the seed and generator it had
DistributionUpdate_KeepSeed(p, child, num_samples) ==
    [p EXCEPT !.num_samples = num_samples]

\* Distribution.update(seed, num_samples): seed is the child just spawned
DistributionUpdate(p, child, num_samples) ==
    [p EXCEPT !.num_samples = num_samples, !.seed = child, !.draws = 0]

RECURSIVE ReseedLoop(_, _, _, _, _)
ReseedLoop(st, m, r, j, reset) ==
  LET
    \* one iteration over an input Property pid of a Region for Model m:
    \* prop.distribution.update(self.seed, self.num_samples), and in
    \* add_regions also prop.values = 0
    ReseedOne(st0, m0, pid, reset0) ==
        LET mod == st0.models[m0]
            child == SpawnChild(mod.entropy, mod.n_children_spawned)
            p1 == DistributionUpdate(st0.props[pid], child, mod.num_samples)
            p2 == IF reset0 THEN [p1 EXCEPT !.values = NoValues] ELSE p1
        IN [st0 EXCEPT !.props[pid] = p2,
                      !.models[m0].n_children_spawned = @ + 1]
  IN
    IF j > Len(st.regions[r].inputs) THEN st
    ELSE ReseedLoop(ReseedOne(st, m, st.regions[r].inputs[j].id, reset),
                    m, r, j + 1, reset)

\* Region.update_properties(seed, num_samples) with the seed of Model m
Region_update_properties(st, m, r) == ReseedLoop(st, m, r, 1, FALSE)

(***************************************************************************)
(* Model.__contains__ and Model.add_regions                                *)
(***************************************************************************)
\* as Model__contains__, but looks up the Model's own name
Model__contains__OwnName(mod, name) == DictHas(mod.regions, mod.name)

Model__contains__(mod, name) == DictHas(mod.regions, name)

RECURSIVE AddRegionsLoop(_, _, _, _)
AddRegionsLoop(st, m, rs, i) ==
    IF i > Len(rs) THEN Ok(st)
    ELSE LET r == rs[i]
             name == st.regions[r].name
         IN IF Model__contains__(st.models[m], name)
            THEN Raise(st, "KeyError")
            ELSE LET s1 == ReseedLoop(st, m, r, 1, TRUE)
                     s2 == [s1 EXCEPT !.models[m].regions =
                                         DictSet(@, name, r)]
                 IN AddRegionsLoop(s2, m, rs, i + 1)

\* as Model_add_regions, but starts each call with a root seed that has
\* spawned no children, as add_properties does
Model_add_regions_FreshRoot(st, m, rs) ==
    AddRegionsLoop([st EXCEPT !.models[m].n_children_spawned = 0], m, rs, 1)

\* Model.add_regions(*regions) on Model m
Model_add_regions(st, m, rs) == AddRegionsLoop(st, m, rs, 1)

(***************************************************************************)
(* copy.deepcopy of a tuple of Property objects                            *)
(***************************************************************************)

NumDistinct(ps) == Cardinality({ps[i] : i \in 1..Len(ps)})

(***************************************************************************)
(* Model.add_properties                                                    *)
(***************************************************************************)
\* region.add_properties(*deepcopy(props)); region.update_properties(...)
AddCopiesTo(st, m, r, ps) ==
  LET
    FirstIdx(ps0, i) ==
        CHOOSE j \in 1..i : ps0[j] = ps0[i] /\ \A k \in 1..(j - 1) : ps0[k] # ps0[i]
  IN
  LET
    Rank(ps0, i) == Cardinality({j \in 1..i : FirstIdx(ps0, j) = j})
  IN
  LET
    \* the tuple of the copies' identities
    DeepCopyIds(heap, ps0) ==
        [i \in 1..Len(ps0) |-> Len(heap) + Rank(ps0, FirstIdx(ps0, i))]
  IN
  LET
    \* the copies, appended to the heap: one per distinct object of the tuple
    DeepCopyProps(heap, ps0) ==
        heap \o [k \in 1..NumDistinct(ps0) |->
                    heap[ps0[CHOOSE i \in 1..Len(ps0) :
                                FirstIdx(ps0, i) = i /\ Rank(ps0, i) = k]]]
  IN
    LET s1 == [st EXCEPT !.props = DeepCopyProps(st.props, ps)]
        res == Region_add_properties(s1, r, DeepCopyIds(st.props, ps))
    IN IF res.err # None THEN res
       ELSE Ok(Region_update_properties(res.st, m, r))

\* the loop over self.regions.values() for the positional arguments
RECURSIVE AddArgsLoop(_, _, _, _)
AddArgsLoop(st, m, ps, i) ==
    IF i > Len(st.models[m].regions) THEN Ok(st)
    ELSE LET res == AddCopiesTo(st, m, st.models[m].regions[i].id, ps)
         IN IF res.err # None THEN res
            ELSE AddArgsLoop(res.st, m, ps, i + 1)

\* the loop over props_kwargs.items(); kw[i] = [reg, props]
RECURSIVE AddKwargsLoop(_, _, _, _)
AddKwargsLoop(st, m, kw, i) ==
    IF i > Len(kw) THEN Ok(st)
    ELSE IF ~DictHas(st.models[m].regions, kw[i].reg)
    THEN Raise(st, "KeyError")
    ELSE LET r == DictGet(st.models[m].regions, kw[i].reg)
             res == AddCopiesTo(st, m, r, kw[i].props)
         IN IF res.err # None THEN res
            ELSE AddKwargsLoop(res.st, m, kw, i + 1)

\* Model.add_properties(*props_args, **props_kwargs) on Model m
Model_add_properties(st, m, ps, kw) ==
  LET
    \* self.seed = SeedSequence(self.seed.entropy)
    ResetSpawnCount(mod) == [mod EXCEPT !.n_children_spawned = 0]
  IN
    LET s0 == [st EXCEPT !.models[m] = ResetSpawnCount(@)]
        r1 == IF Len(ps) > 0 THEN AddArgsLoop(s0, m, ps, 1) ELSE Ok(s0)
    IN IF r1.err # None THEN r1
       ELSE IF Len(kw) > 0 THEN AddKwargsLoop(r1.st, m, kw, 1)
       ELSE r1

(***************************************************************************)
(* equation_parser.py.  A formula is a string: its length and what         *)
(* ast.parse makes of it (a parse tree, or a SyntaxError); blanks pad a    *)
(* formula to any length without changing its tree.  A value is a number   *)
(* [tag "int"], a numpy vector of numbers [tag "vec"], a sample vector, or *)
(* the tree of the operations applied to such operands; None and strings   *)
(* are the other objects a binding can hold.                               *)
(***************************************************************************)
MAX_FORMULA_LENGTH == 255

Formula(len, tree) == [type |-> "str", len |-> len, ast |-> tree]

\* what ast.parse raises on a malformed formula
ParseFailure == [type |-> "SyntaxError"]

NameNode(id) == [type |-> "Name", id |-> id]

\* kind is the Python type of the literal; a bool holds 1 or 0
ConstantNode(kind, v) == [type |-> "Constant", kind |-> kind, value |-> v]

BinOpNode(op, l, r) == [type |-> "BinOp", op |-> op, left |-> l, right |-> r]

UnaryOpNode(op, operand) == [type |-> "UnaryOp", op |-> op, operand |-> operand]

\* a node type without an evaluator (a call, a comparison, ...)
OtherNode(type) == [type |-> type]

Number(n) == [tag |-> "int", v |-> n]

\* the elements are held in a field of their own
Vector(s) == [tag |-> "vec", elems |-> s]

NoneValue == [tag |-> "None"]

\* the outcome of a step of the walk: the exception raised (None when a
\* value is returned), the message of the exception, the value
Value(v) == [err |-> None, msg |-> "", val |-> v]

Error(e, msg) == [err |-> e, msg |-> msg, val |-> NoneValue]

\* variables.get(node.id, None) over the bindings (a dict variable -> values)
BindingGet(vs, id) ==
    IF \E i \in 1..Len(vs) : vs[i].key = id
    THEN vs[CHOOSE i \in 1..Len(vs) : vs[i].key = id].val
    ELSE NoneValue

\* eval_name: a number is returned as a float; anything else is asked
\* .all(), which None and str do not have
eval_name(node, vs) ==
  LET
    \* ndarray.all(): no element is zero; a sample of a continuous distribution
    \* and what is computed from one hold no zero
    NdarrayAll(x) ==
        IF x.tag = "vec" THEN \A i \in 1..Len(x.elems) : x.elems[i] # 0 ELSE TRUE
  IN
    LET name == BindingGet(vs, node.id)
    IN CASE name.tag = "int" -> Value(name)
         [] name.tag \in {"None", "str"} -> Error("AttributeError", "all")
         [] OTHER -> IF NdarrayAll(name) THEN Value(name)
                     ELSE Error("FormulaSyntaxError", "Undefined variable")

\* eval_constant: isinstance(node.value, (float, int)), which holds of a bool
eval_constant(node) ==
    IF node.kind \in {"float", "int", "bool"}
    THEN Value(Number(node.value))
    ELSE Error("FormulaSyntaxError", "Literals of this type are not supported")

RECURSIVE IntPow(_, _)
IntPow(b, e) == IF e = 0 THEN 1 ELSE b * IntPow(b, e - 1)

\* the operator applied to two values, numpy broadcasting included
Apply(op, l, r) ==
  LET
    \* operator.add/sub/mul/truediv/pow on two floats; a quotient or a power
    \* that is no whole number is kept as the operation
    ApplyNumbers(op0, l0, r0) ==
        CASE op0 = "Add" -> Value(Number(l0 + r0))
          [] op0 = "Sub" -> Value(Number(l0 - r0))
          [] op0 = "Mult" -> Value(Number(l0 * r0))
          [] op0 = "Div" ->
               IF r0 = 0 THEN Error("ZeroDivisionError", "float division by zero")
               ELSE IF l0 % r0 = 0 THEN Value(Number(l0 \div r0))
               ELSE Value([tag |-> "binop", op |-> op0,
                           left |-> Number(l0), right |-> Number(r0)])
          [] op0 = "Pow" ->
               IF r0 >= 0 THEN Value(Number(IntPow(l0, r0)))
               ELSE IF l0 = 0
               THEN Error("ZeroDivisionError", "0.0 cannot be raised to a negative power")
               ELSE Value([tag |-> "binop", op |-> op0,
                           left |-> Number(l0), right |-> Number(r0)])
  IN
  LET
    \* the element i of an operand broadcast to a vector
    Elem(x, i) == IF x.tag = "int" THEN x.v ELSE x.elems[i]
  IN
    IF l.tag = "int" /\ r.tag = "int" THEN ApplyNumbers(op, l.v, r.v)
    ELSE IF {l.tag, r.tag} \subseteq {"int", "vec"}
    THEN IF l.tag = "vec" /\ r.tag = "vec" /\ Len(l.elems) # Len(r.elems)
            /\ Len(l.elems) # 1 /\ Len(r.elems) # 1
         THEN Error("ValueError", "operands could not be broadcast together")
         ELSE IF op \in {"Add", "Sub", "Mult"}
                 /\ (l.tag = "int" \/ r.tag = "int"
                     \/ Len(l.elems) = Len(r.elems))
         THEN LET n == IF l.tag = "vec" THEN Len(l.elems) ELSE Len(r.elems)
              IN Value(Vector([i \in 1..n |->
                         ApplyNumbers(op, Elem(l, i), Elem(r, i)).val.v]))
         ELSE Value([tag |-> "binop", op |-> op, left |-> l, right |-> r])
    ELSE Value([tag |-> "binop", op |-> op, left |-> l, right |-> r])

\* operator.neg
Negate(x) ==
    CASE x.tag = "int" -> Number(0 - x.v)
      [] x.tag = "vec" -> Vector([i \in 1..Len(x.elems) |-> 0 - x.elems[i]])
      [] OTHER -> [tag |-> "neg", of |-> x]

RECURSIVE eval_node(_, _)
\* eval_binop: both operands are evaluated before the operator is looked up
eval_binop(node, vs) ==
  LET
    BinOperations == {"Add", "Sub", "Mult", "Div", "Pow"}
  IN
    LET l == eval_node(node.left, vs)
    IN IF l.err # None THEN l
       ELSE LET r == eval_node(node.right, vs)
            IN IF r.err # None THEN r
               ELSE IF node.op \in BinOperations
               THEN Apply(node.op, l.val, r.val)
               ELSE Error("FormulaSyntaxError",
                          "Operations of this type are not supported")

\* eval_unaryop: the operand is evaluated before the operator is looked up
eval_unaryop(node, vs) ==
  LET
    UnaryOperations == {"USub"}
  IN
    LET x == eval_node(node.operand, vs)
    IN IF x.err # None THEN x
       ELSE IF node.op \in UnaryOperations THEN Value(Negate(x.val))
       ELSE Error("FormulaSyntaxError",
                  "Operations of this type are not supported")

eval_node(node, vs) ==
    CASE node.type = "Constant" -> eval_constant(node)
      [] node.type = "Name" -> eval_name(node, vs)
      [] node.type = "BinOp" -> eval_binop(node, vs)
      [] node.type = "UnaryOp" -> eval_unaryop(node, vs)
      [] OTHER -> Error("FormulaSyntaxError", "This syntax is not supported")

\* as TooLong, but refuses a formula of the maximal length too
TooLong_AtLimit(formula) == formula.len >= MAX_FORMULA_LENGTH

\* len(formula) > MAX_FORMULA_LENGTH
TooLong(formula) == formula.len > MAX_FORMULA_LENGTH

\* as evaluate, but lets every exception of the walk through as it is
evaluate_NoWrap(formula, vs) ==
    IF TooLong(formula)
    THEN Error("FormulaSyntaxError", "The formula is too long")
    ELSE IF formula.ast.type = "SyntaxError"
    THEN Error("FormulaSyntaxError", "Could not parse")
    ELSE eval_node(formula.ast, vs)

\* evaluate(formula, variables)
evaluate(formula, vs) ==
    IF TooLong(formula)
    THEN Error("FormulaSyntaxError", "The formula is too long")
    ELSE IF formula.ast.type = "SyntaxError"
    THEN Error("FormulaSyntaxError", "Could not parse")
    ELSE LET res == eval_node(formula.ast, vs)
         IN IF res.err \in {None, "FormulaSyntaxError"} THEN res
            ELSE Error("FormulaRuntimeError", "Evaluation failed")

(***************************************************************************)
(* Distribution.__call__ and Property.run_calculation                      *)
(***************************************************************************)

\* Distribution.__call__(**kwargs) followed by calculate_stats
RunInput(p, kwargs) ==
  LET
    \* self.function.rvs(size=self.num_samples, random_state=self.rng, ...)
    Rvs(p0) ==
        [tag |-> "sample", kind |-> p0.distribution, params |-> p0.params,
         seed |-> p0.seed, pos |-> p0.draws, n |-> p0.num_samples]
  IN
    LET p1 == IF kwargs # <<>> THEN [p EXCEPT !.params = kwargs] ELSE p
        v == Rvs(p1)
    IN [p1 EXCEPT !.values = v, !.draws = @ + p1.num_samples,
                  !.stats = calculate_stats(p1.stats, v)]

\* Property.variable: the alias a Property is bound under in a formula
variable(p) == p.name

(***************************************************************************)
(* Model.make_config, Model.check_config, Model.run                        *)
(***************************************************************************)
\* make_config(user_input=False)
make_config(st, m) ==
    LET regs == st.models[m].regions
    IN [rn \in DictKeys(regs) |->
          LET ins == st.regions[DictGet(regs, rn)].inputs
          IN [pn \in DictKeys(ins) |->
                DISTRIBUTIONS_KWARGS[st.props[DictGet(ins, pn)].distribution]]]

\* as check_config, but compares the region and property names only
check_config_NamesOnly(st, m, config) ==
    /\ DOMAIN config = DOMAIN make_config(st, m)
    /\ \A rn \in DOMAIN config :
          DOMAIN config[rn] = DOMAIN make_config(st, m)[rn]

\* check_config(config)
check_config(st, m, config) ==
    LET config_test ==
          [rn \in DOMAIN config |->
              [pn \in DOMAIN config[rn] |-> DOMAIN config[rn][pn]]]
    IN config_test = make_config(st, m)

RECURSIVE RunInputsLoop(_, _, _, _)
RunInputsLoop(st, r, rcfg, j) ==
    IF j > Len(st.regions[r].inputs) THEN st
    ELSE LET e == st.regions[r].inputs[j]
         IN RunInputsLoop(
               [st EXCEPT !.props[e.id] = RunInput(@, rcfg[e.key])],
               r, rcfg, j + 1)

RECURSIVE RunResultsLoop(_, _, _)
RunResultsLoop(st, r, j) ==
  LET
    \* Region.get_properties("values", include="inputs", variable_key=True)
    InputBindings(st0, r0) ==
        [i \in 1..Len(st0.regions[r0].inputs) |->
            LET p == st0.props[st0.regions[r0].inputs[i].id]
            IN [key |-> variable(p), val |-> p.values]]
  IN
    IF j > Len(st.regions[r].results) THEN Ok(st)
    ELSE LET pid == st.regions[r].results[j].id
             res == evaluate(st.props[pid].equation, InputBindings(st, r))
         IN IF res.err # None THEN Raise(st, res.err)
            ELSE RunResultsLoop(
                   [st EXCEPT !.props[pid].values = res.val,
                              !.props[pid].stats =
                                 calculate_stats(st.props[pid].stats, res.val)],
                   r, j + 1)

\* as RunRegionsLoop, with the results loop of a Region before its inputs
\* loop
RECURSIVE RunRegionsLoop_ResultsFirst(_, _, _, _)
RunRegionsLoop_ResultsFirst(st, m, config, i) ==
    IF i > Len(st.models[m].regions) THEN Ok(st)
    ELSE LET e == st.models[m].regions[i]
             res == RunResultsLoop(st, e.id, 1)
         IN IF res.err # None THEN res
            ELSE RunRegionsLoop_ResultsFirst(
                    RunInputsLoop(res.st, e.id, config[e.key], 1),
                    m, config, i + 1)

\* the loop of Model.run over self.regions.items()
RECURSIVE RunRegionsLoop(_, _, _, _)
RunRegionsLoop(st, m, config, i) ==
    IF i > Len(st.models[m].regions) THEN Ok(st)
    ELSE LET e == st.models[m].regions[i]
             s1 == RunInputsLoop(st, e.id, config[e.key], 1)
             res == RunResultsLoop(s1, e.id, 1)
         IN IF res.err # None THEN res
            ELSE RunRegionsLoop(res.st, m, config, i + 1)

\* as Model_run, but refuses a config only when an entry it reads is missing
Model_run_Lenient(st, m, config) ==
    IF \E i \in 1..Len(st.models[m].regions) :
          LET e == st.models[m].regions[i]
          IN \/ e.key \notin DOMAIN config
             \/ \E j \in 1..Len(st.regions[e.id].inputs) :
                   st.regions[e.id].inputs[j].key \notin DOMAIN config[e.key]
    THEN Raise(st, "KeyError")
    ELSE RunRegionsLoop(st, m, config, 1)

\* Model.run(config)
Model_run(st, m, config) ==
    IF ~check_config(st, m, config) THEN Raise(st, "KeyError")
    ELSE RunRegionsLoop(st, m, config, 1)

(***************************************************************************)
(* Model.get_all_properties and Model.get_result                           *)
(***************************************************************************)

\* the (region, property, values) triples in the order get_all_properties
\* visits them
RECURSIVE AllResultValues(_, _, _)
AllResultValues(st, m, i) ==
  LET
    \* Region.get_properties("values", include="results"): name -> values of
    \* the result Properties, in the order of the dict
    ResultValues(st0, r) ==
        [j \in 1..Len(st0.regions[r].results) |->
            LET p == st0.props[st0.regions[r].results[j].id]
            IN [key |-> p.name, val |-> p.values]]
  IN
    IF i > Len(st.models[m].regions) THEN <<>>
    ELSE LET e == st.models[m].regions[i]
             vs == ResultValues(st, e.id)
         IN [j \in 1..Len(vs) |->
               [reg |-> e.key, prop |-> vs[j].key, val |-> vs[j].val]]
            \o AllResultValues(st, m, i + 1)

\* attributes[prop_id].values(): the values held under one name, one per
\* Region, in the order of the Regions
RECURSIVE ValuesOfName(_, _)
ValuesOfName(all, name) ==
    IF all = <<>> THEN <<>>
    ELSE (IF Head(all).prop = name THEN <<Head(all).val>> ELSE <<>>)
         \o ValuesOfName(Tail(all), name)

\* the length of a value: 0 for a number, the number of elements of a
\* vector, with numpy broadcasting for what is computed from two values
RECURSIVE Shape(_)
Shape(v) ==
  LET
    ShapeOfTerms(terms) ==
        LET shapes == {Shape(terms[i]) : i \in 1..Len(terms)}
        IN CHOOSE n \in shapes : \A k \in shapes : k <= n
  IN
    CASE v.tag = "int" -> 0
      [] v.tag = "vec" -> Len(v.elems)
      [] v.tag = "sample" -> v.n
      [] v.tag = "binop" -> ShapeOfTerms(<<v.left, v.right>>)
      [] v.tag = "neg" -> Shape(v.of)
      [] v.tag = "sum" -> ShapeOfTerms(v.terms)

\* numpy.sum(tuple(res.values()), axis=0)
NumpySum(terms) == [tag |-> "sum", terms |-> terms]

\* the loop of get_result over the names; strict is the numpy that refuses
\* to build an array of values of different shapes (ValueError), the other
\* numpy adds them with broadcasting
RECURSIVE GetResultLoop(_, _, _, _, _, _)
GetResultLoop(st, m, all, names, n, strict) ==
  LET
    \* self.results[res_name] = ... : a dict name -> aggregate
    ResultsSet(d, k, v) ==
        IF \E i \in 1..Len(d) : d[i].key = k
        THEN [d EXCEPT ![CHOOSE i \in 1..Len(d) : d[i].key = k] =
                 [key |-> k, val |-> v]]
        ELSE Append(d, [key |-> k, val |-> v])
  IN
  LET
    \* numpy.array(tuple) of values of different shapes
    Inhomogeneous(terms) ==
        \E i, k \in 1..Len(terms) : Shape(terms[i]) # Shape(terms[k])
  IN
    IF n > Len(names) THEN Ok(st)
    ELSE LET terms == ValuesOfName(all, names[n])
         IN IF strict /\ Inhomogeneous(terms) THEN Raise(st, "ValueError")
            ELSE GetResultLoop(
                   [st EXCEPT !.models[m].results =
                       ResultsSet(@, names[n], NumpySum(terms))],
                   m, all, names, n + 1, strict)

\* Model.get_result(): returns self.results
Model_get_result(st, m, strict) ==
  LET
    \* get_all_properties(..., invert_dict=True): the property names, each at
    \* the place of its first occurrence
    InvertedNames(all) ==
        LET first == {i \in 1..Len(all) :
                         \A k \in 1..(i - 1) : all[k].prop # all[i].prop}
        IN [n \in 1..Cardinality(first) |->
              all[CHOOSE i \in first :
                     Cardinality({k \in first : k < i}) = n - 1].prop]
  IN
    LET all == AllResultValues(st, m, 1)
    IN GetResultLoop(st, m, all, InvertedNames(all), 1, strict)

(***************************************************************************)
(* The objects the user code has constructed before it calls the Model:    *)
(* six Property objects and the Regions, filled by Region.add_properties.  *)
(***************************************************************************)
\* "p*q"
Formula_pq == Formula(3, BinOpNode("Mult", NameNode("p"), NameNode("q")))

Pool ==
    << NewProperty("p", "uniform", NoFormula, DefaultNumSamples, 1),
       NewProperty("q", "normal", NoFormula, DefaultNumSamples, 2),
       NewProperty("r", None, Formula_pq, DefaultNumSamples, 3),
       NewProperty("p", "normal", NoFormula, DefaultNumSamples, 4),
       NewProperty("q", "uniform", NoFormula, DefaultNumSamples, 5),
       NewProperty("s", "uniform", NoFormula, DefaultNumSamples, 6) >>

\* Region.__init__
NewRegion(name, composition) ==
    [name |-> name, composition |-> composition,
     inputs |-> <<>>, results |-> <<>>]

\* Model.__init__ with an integer seed
NewModel(name, seed, num_samples) ==
    [name |-> name, entropy |-> seed, n_children_spawned |-> 0,
     num_samples |-> num_samples, results |-> <<>>, regions |-> <<>>]

EmptyHeap ==
    [props |-> Pool,
     regions |-> [r \in RegionIds |->
                    CASE r = 1 -> NewRegion("A", "Sandstone")
                      [] r = 2 -> NewRegion("B", None)
                      [] r = 3 -> NewRegion("A", "Dolomite")
                      [] r = 4 -> NewRegion("C", None)],
     models |-> [m \in ModelIds |-> NewModel("m", 0, 0)],
     built |-> Len(Pool)]

\* A.add_properties(p, q, r); B.add_properties(p'); A'.add_properties(q')
BuiltHeap ==
    LET s1 == Region_add_properties(EmptyHeap, 1, <<1, 2, 3>>).st
        s2 == Region_add_properties(s1, 2, <<4>>).st
    IN Region_add_properties(s2, 3, <<5>>).st

\* Simulation(name, mode=...): no Model is held
NewSimulation(name, mode) ==
    [name |-> name, mode |-> mode, models |-> <<>>]

St == [props |-> props, regions |-> regions, models |-> models,
       built |-> built]

NoCall == [op |-> "init", m |-> 0, args |-> <<>>, err |-> None,
           cfg |-> <<>>, ret |-> FALSE]

Call(op, m, args, err) ==
    [op |-> op, m |-> m, args |-> args, err |-> err,
     cfg |-> <<>>, ret |-> FALSE]

Becomes(st) ==
    /\ props' = st.props
    /\ regions' = st.regions
    /\ models' = st.models
    /\ built' = st.built
    /\ UNCHANGED simulation

ModelName(m) == IF m = 1 THEN "m1" ELSE "m2"

Init ==
    /\ props = BuiltHeap.props
    /\ regions = BuiltHeap.regions
    /\ built = BuiltHeap.built
    /\ simulation = NewSimulation("sim", "single")
    /\ \E s1 \in SeedSet, n \in SampleCounts :
          models = [m \in ModelIds |-> NewModel(ModelName(m), s1, n)]
    /\ last = NoCall

(***************************************************************************)
(* Arguments of the calls.                                                 *)
(***************************************************************************)
\* copies one add_properties call puts on the heap
CopiesNeeded(m, ps, kw) ==
    (IF Len(ps) > 0 THEN NumDistinct(ps) * Len(models[m].regions) ELSE 0)
    + Len(kw)

CanCopy(m, ps, kw) ==
    (Len(props) - built) + CopiesNeeded(m, ps, kw) <= MaxCopies

Params(kind, v) ==
  LET
    \* the value a config gives parameter k
    ParamValue(k, v0) == IF k = "max" THEN v0 + 1 ELSE v0
  IN
                   [k \in DISTRIBUTIONS_KWARGS[kind] |-> ParamValue(k, v)]

\* the config make_config asks for, filled with numbers
CorrectConfig(m, v) ==
    LET regs == models[m].regions
    IN [rn \in DictKeys(regs) |->
          LET ins == regions[DictGet(regs, rn)].inputs
          IN [pn \in DictKeys(ins) |->
                Params(props[DictGet(ins, pn)].distribution, v)]]

Restrict(f, S) == [x \in S |-> f[x]]

Extend(f, x, y) == [z \in DOMAIN f \cup {x} |-> IF z = x THEN y ELSE f[z]]

Configs(m) ==
  LET
    \* configs that differ from the correct one in one place: a region left
    \* out or added, a property left out or added, a parameter left out or
    \* added, the parameters of another kind
    WrongConfigs(m0) ==
        LET c == CorrectConfig(m0, 1)
        IN {Restrict(c, DOMAIN c \ {rn}) : rn \in DOMAIN c}
           \cup {Extend(c, rn, <<>>) : rn \in {"C"} \ DOMAIN c}
           \cup {Extend(c, rn, Restrict(c[rn], DOMAIN c[rn] \ {pn})) :
                    rn \in DOMAIN c, pn \in {"q"}}
           \cup {Extend(c, rn, Extend(c[rn], pn, Params("uniform", 1))) :
                    rn \in DOMAIN c, pn \in {"r"}}
           \cup UNION {{Extend(c, rn, Extend(c[rn], pn,
                                             Extend(c[rn][pn], "extra", 1))) :
                           pn \in {"p"} \cap DOMAIN c[rn]} : rn \in DOMAIN c}
           \cup UNION {{Extend(c, rn, Extend(c[rn], pn,
                            Restrict(c[rn][pn], DOMAIN c[rn][pn] \ {"min"}))) :
                           pn \in {"p"} \cap DOMAIN c[rn]} : rn \in DOMAIN c}
           \cup UNION {{Extend(c, rn, Extend(c[rn], pn, Params("lognormal", 1))) :
                           pn \in {"q"} \cap DOMAIN c[rn]} : rn \in DOMAIN c}
  IN
  LET
    ParamVals == {1}             \* numbers used as parameter values in configs
  IN
              {CorrectConfig(m, v) : v \in ParamVals} \cup WrongConfigs(m)

\* the generators of Model m's input Properties can still draw a run
CanDraw(m) ==
    \A i \in 1..Len(models[m].regions) :
       \A j \in 1..Len(regions[models[m].regions[i].id].inputs) :
          props[regions[models[m].regions[i].id].inputs[j].id].draws
             + models[m].num_samples <= MaxDraws

\* keyword arguments of the add_properties calls made on a Model
KwArgs ==
    { <<[reg |-> "A", props |-> <<6>>]>>,
      <<[reg |-> "B", props |-> <<3>>]>>,
      <<[reg |-> "C", props |-> <<6>>]>>,
      <<[reg |-> "B", props |-> <<6>>], [reg |-> "C", props |-> <<3>>]>> }

(***************************************************************************)
(* Actions: one per call on a Model.                                       *)
(***************************************************************************)
ModelAddRegions(m, rs) ==
    LET res == Model_add_regions(St, m, rs)
    IN /\ Becomes(res.st)
       /\ last' = Call("add_regions", m, rs, res.err)

ModelAddPropertiesArgs(m, ps) ==
    /\ CanCopy(m, ps, <<>>)
    /\ LET res == Model_add_properties(St, m, ps, <<>>)
       IN /\ Becomes(res.st)
          /\ last' = Call("add_properties", m, ps, res.err)

ModelAddPropertiesKwargs(m, kw) ==
    /\ CanCopy(m, <<>>, kw)
    /\ LET res == Model_add_properties(St, m, <<>>, kw)
       IN /\ Becomes(res.st)
          /\ last' = Call("add_properties_kw", m, kw, res.err)

ModelRun(m, config) ==
    /\ CanDraw(m)
    /\ LET res == Model_run(St, m, config)
       IN /\ Becomes(res.st)
          /\ last' = [Call("run", m, <<>>, res.err) EXCEPT !.cfg = config]

ModelCheckConfig(m, config) ==
    /\ UNCHANGED <<props, regions, models, built, simulation>>
    /\ last' = [Call("check_config", m, <<>>, None) EXCEPT
                   !.cfg = config, !.ret = check_config(St, m, config)]

\* the calls made on one Model
Next ==
    \/ \E rs \in {<<1>>, <<2>>, <<3>>, <<1, 2>>, <<2, 3>>, <<2, 2>>} :
          ModelAddRegions(1, rs)
    \/ \E ps \in {<<>>, <<6>>, <<3>>, <<6, 3>>} : ModelAddPropertiesArgs(1, ps)
    \/ \E kw \in KwArgs : ModelAddPropertiesKwargs(1, kw)
    \/ \E config \in Configs(1) : ModelRun(1, config)
    \/ \E config \in Configs(1) \cup {CorrectConfig(1, 2)} :
          ModelCheckConfig(1, config)

Spec == Init /\ [][Next]_vars

(***************************************************************************)
(* SpecShare: the calls made on two Models that are given the same Region  *)
(* objects.                                                                *)
(***************************************************************************)
InitShare ==
    /\ props = BuiltHeap.props
    /\ regions = BuiltHeap.regions
    /\ built = BuiltHeap.built
    /\ simulation = NewSimulation("sim", "single")
    /\ \E s2 \in SeedSet, n \in SampleCounts :
          models = [m \in ModelIds |->
                      NewModel(ModelName(m), IF m = 1 THEN 7 ELSE s2, n)]
    /\ last = NoCall

NextShare ==
    \/ \E m \in ModelIds, rs \in {<<1>>, <<2>>} : ModelAddRegions(m, rs)
    \/ \E m \in ModelIds, ps \in {<<>>, <<6>>} : ModelAddPropertiesArgs(m, ps)
    \/ \E m \in ModelIds : ModelRun(m, CorrectConfig(m, 1))

SpecShare == InitShare /\ [][NextShare]_vars

(***************************************************************************)
(* SpecPair: two Models created with the same seed and sample count, each  *)
(* given the same calls with equal arguments: Model 1 is given Regions 1   *)
(* and 2, Model 2 the equal Regions 3 and 4 built by the same code.        *)
(***************************************************************************)
PairPool ==
    << NewProperty("p", "uniform", NoFormula, DefaultNumSamples, 1),
       NewProperty("q", "normal", NoFormula, DefaultNumSamples, 2),
       NewProperty("r", None, Formula_pq, DefaultNumSamples, 3),
       NewProperty("p", "normal", NoFormula, DefaultNumSamples, 4),
       NewProperty("p", "uniform", NoFormula, DefaultNumSamples, 5),
       NewProperty("q", "normal", NoFormula, DefaultNumSamples, 6),
       NewProperty("r", None, Formula_pq, DefaultNumSamples, 7),
       NewProperty("p", "normal", NoFormula, DefaultNumSamples, 8),
       NewProperty("s", "uniform", NoFormula, DefaultNumSamples, 9) >>

PairHeap ==
    LET s0 == [props |-> PairPool,
               regions |-> [r \in RegionIds |->
                              IF r \in {1, 3} THEN NewRegion("A", "Sandstone")
                              ELSE NewRegion("B", None)],
               models |-> [m \in ModelIds |-> NewModel("m", 0, 0)],
               built |-> Len(PairPool)]
        s1 == Region_add_properties(s0, 1, <<1, 2, 3>>).st
        s2 == Region_add_properties(s1, 2, <<4>>).st
        s3 == Region_add_properties(s2, 3, <<5, 6, 7>>).st
    IN Region_add_properties(s3, 4, <<8>>).st

InitPair ==
    /\ props = PairHeap.props
    /\ regions = PairHeap.regions
    /\ built = PairHeap.built
    /\ simulation = NewSimulation("sim", "single")
    /\ \E s1 \in SeedSet, n \in SampleCounts :
          models = [m \in ModelIds |-> NewModel(ModelName(m), s1, n)]
    /\ last = NoCall

MirrorProps(ps) ==
  LET
    MirrorProp(t) == IF t = 3 THEN 7 ELSE t
  IN
                   [i \in 1..Len(ps) |-> MirrorProp(ps[i])]

PairCall(op, args, r1, r2) ==
    [Call(op, 0, args, r1.err) EXCEPT !.ret = (r1.err = r2.err)]

PairAddRegions(rs) ==
  LET
    \* the argument of Model 2's call that equals Model 1's argument
    MirrorRegions(rs0) == [i \in 1..Len(rs0) |-> rs0[i] + 2]
  IN
    LET r1 == Model_add_regions(St, 1, rs)
        r2 == Model_add_regions(r1.st, 2, MirrorRegions(rs))
    IN /\ Becomes(r2.st)
       /\ last' = PairCall("add_regions", rs, r1, r2)

PairAddProperties(ps, kw) ==
  LET
    MirrorKwargs(kw0) ==
        [i \in 1..Len(kw0) |-> [reg |-> kw0[i].reg, props |-> MirrorProps(kw0[i].props)]]
  IN
    /\ (Len(props) - built) + 2 * CopiesNeeded(1, ps, kw) <= 2 * MaxCopies
    /\ LET r1 == Model_add_properties(St, 1, ps, kw)
           r2 == Model_add_properties(r1.st, 2, MirrorProps(ps), MirrorKwargs(kw))
       IN /\ Becomes(r2.st)
          /\ last' = PairCall("add_properties", <<ps, kw>>, r1, r2)

PairRun(config) ==
    /\ CanDraw(1)
    /\ LET r1 == Model_run(St, 1, config)
           r2 == Model_run(r1.st, 2, config)
       IN /\ Becomes(r2.st)
          /\ last' = [PairCall("run", <<>>, r1, r2) EXCEPT !.cfg = config]

NextPair ==
    \/ \E rs \in {<<1>>, <<2>>, <<1, 2>>, <<2, 1>>, <<2, 2>>} : PairAddRegions(rs)
    \/ \E ps \in {<<>>, <<9>>, <<3>>} : PairAddProperties(ps, <<>>)
    \/ \E kw \in {<<[reg |-> "A", props |-> <<9>>]>>,
                  <<[reg |-> "B", props |-> <<3>>]>>,
                  <<[reg |-> "C", props |-> <<9>>]>>} :
          PairAddProperties(<<>>, kw)
    \/ \E config \in Configs(1) : PairRun(config)

SpecPair == InitPair /\ [][NextPair]_vars

(***************************************************************************)
(* SpecBuild: the user code constructs Property objects and fills Regions. *)
(***************************************************************************)
InitBuild ==
    /\ props = <<>>
    /\ regions = EmptyHeap.regions
    /\ models = [m \in ModelIds |-> NewModel(ModelName(m), 7, 2)]
    /\ built = 0
    /\ simulation = NewSimulation("sim", "single")
    /\ last = NoCall

\* Property(name, distribution=..., equation=..., num_samples=...)
PropertyInit(name, distribution, equation, num_samples) ==
  LET
    \* Distribution._init_func: unknown kind
    DistributionInitError(distribution0) ==
        IF Truthy(distribution0) /\ distribution0 \notin DistributionNames
        THEN "KeyError" ELSE None
  IN
    /\ built < MaxBuilt
    /\ LET e1 == PropertyInitError(distribution, equation)
           err == IF e1 # None THEN e1 ELSE DistributionInitError(distribution)
       IN /\ IF err = None
             THEN /\ props' = Append(props,
                                     NewProperty(name, distribution, equation,
                                                 num_samples, Len(props) + 1))
                  /\ built' = built + 1
             ELSE UNCHANGED <<props, built>>
          /\ last' = Call("Property", 0,
                          [name |-> name, distribution |-> distribution,
                           equation |-> equation], err)
    /\ UNCHANGED <<regions, models, simulation>>

\* region.add_properties(*ps) called by the user code on Region object r
RegionAddProperties(r, ps) ==
    LET res == Region_add_properties(St, r, ps)
    IN /\ Becomes(res.st)
       /\ last' = Call("region_add_properties", 0, [r |-> r, ps |-> ps], res.err)

NextBuild ==
    \/ \E name \in {"p", "q"}, distribution \in {None, "normal", "gamma"},
          equation \in {NoFormula, Formula_pq}, num_samples \in {DefaultNumSamples} :
          PropertyInit(name, distribution, equation, num_samples)
    \/ \E r \in {1}, ps \in UNION {[1..k -> 1..Len(props)] : k \in 1..2} :
          RegionAddProperties(r, ps)

SpecBuild == InitBuild /\ [][NextBuild]_vars

(***************************************************************************)
(* Property.run_calculation and the arithmetic of Property objects.        *)
(***************************************************************************)
\* Distribution._intersept_kwargs and rvs: a parameter the kind needs that
\* is not among self.params is None, and arithmetic on None is a TypeError
InterseptError(kind, params) ==
    IF DISTRIBUTIONS_KWARGS[kind] \subseteq DOMAIN params THEN None
    ELSE "TypeError"

\* Property.run_calculation(**kwargs): the Property afterwards, the
\* exception raised, the dict returned
Property_run_calculation(p, kwargs) ==
  LET
    \* the bindings a call run_calculation(**kwargs) hands to the evaluator
    KwBindings(kwargs0) == kwargs0
  IN
    IF p.prop_type = "input"
    THEN LET p1 == IF kwargs # <<>> THEN [p EXCEPT !.params = kwargs] ELSE p
             e == InterseptError(p1.distribution, p1.params)
         IN IF e # None THEN [p |-> p1, err |-> e, ret |-> NoStats]
            ELSE LET p2 == RunInput(p, kwargs)
                 IN [p |-> p2, err |-> None, ret |-> p2.stats]
    ELSE LET res == evaluate(p.equation, KwBindings(kwargs))
         IN IF res.err # None THEN [p |-> p, err |-> res.err, ret |-> NoStats]
            ELSE LET p2 == [p EXCEPT !.values = res.val,
                                     !.stats = calculate_stats(p.stats, res.val)]
                 IN [p |-> p2, err |-> None, ret |-> p2.stats]

ArithSymbols ==
    [op \in {"Add", "Sub", "Mult", "Div"} |->
        CASE op = "Add" -> " + " [] op = "Sub" -> " - "
          [] op = "Mult" -> " * " [] op = "Div" -> " / "]

\* __add__, __sub__, __mul__, __truediv__ with a Property operand:
\* new = Property(name), without distribution and without equation, then
\* new.values = self.values <op> other.values
Property_arith(op, self, other) ==
  LET
    \* the name __add__, __sub__, __mul__, __truediv__ give the new Property
    ArithName(op0, self0, other0) ==
        "(" \o self0.name \o ArithSymbols[op0] \o other0.name \o ")"
  IN
    LET name == ArithName(op, self, other)
        e == PropertyInitError(None, NoFormula)
    IN IF e # None THEN [err |-> e, new |-> self]
       ELSE LET v == Apply(op, self.values, other.values)
            IN IF v.err # None THEN [err |-> v.err, new |-> self]
               ELSE [err |-> None,
                     new |-> [NewProperty(name, None, NoFormula, 0, 0)
                                EXCEPT !.values = v.val]]

\* the same with a number as the other operand
Property_arith_scalar(op, self, n) ==
    LET name == "(" \o self.name \o ArithSymbols[op] \o ToString(n) \o ")"
        e == PropertyInitError(None, NoFormula)
    IN IF e # None THEN [err |-> e, new |-> self]
       ELSE LET v == Apply(op, self.values, Number(n))
            IN IF v.err # None THEN [err |-> v.err, new |-> self]
               ELSE [err |-> None,
                     new |-> [NewProperty(name, None, NoFormula, 0, 0)
                                EXCEPT !.values = v.val]]

\* __neg__
Property__neg__(self) ==
    LET name == "(-" \o self.name \o ")"
        e == PropertyInitError(None, NoFormula)
    IN IF e # None THEN [err |-> e, new |-> self]
       ELSE [err |-> None,
             new |-> [NewProperty(name, None, NoFormula, 0, 0)
                        EXCEPT !.values = Negate(self.values)]]

(***************************************************************************)
(* serialize and deserialize of Model, Region, Property and Distribution.  *)
(* A serialized dict is a record, a dict of documents a sequence of        *)
(* [key, val] entries; the objects deserialize builds are records that     *)
(* hold their Regions and Properties themselves.                           *)
(***************************************************************************)
\* Property.serialize(): the alias and the distribution or the formula
Property_serialize(p) ==
  LET
    \* Distribution.serialize(): num_samples and seed are excluded, rng and
    \* function are not serializable
    Distribution_serialize(d) == [name |-> d.distribution, params |-> d.params]
  IN
    IF p.prop_type = "input"
    THEN [variable |-> variable(p), distribution |-> Distribution_serialize(p)]
    ELSE [variable |-> variable(p), equation |-> p.equation]

\* the loop of Region.serialize over one of the two dicts
SerializeProperties(st, d) ==
    [j \in 1..Len(d) |->
        [key |-> d[j].key, val |-> Property_serialize(st.props[d[j].id])]]

\* Region.serialize(exclude=("name")): every slot but name
Region_serialize(st, r) ==
    [composition |-> st.regions[r].composition,
     inputs |-> SerializeProperties(st, st.regions[r].inputs),
     results |-> SerializeProperties(st, st.regions[r].results)]

\* Model.serialize(exclude=("results",)): the seed as its entropy
Model_serialize(st, m) ==
    [name |-> st.models[m].name,
     seed |-> st.models[m].entropy,
     num_samples |-> st.models[m].num_samples,
     regions |-> [i \in 1..Len(st.models[m].regions) |->
                    [key |-> st.models[m].regions[i].key,
                     val |-> Region_serialize(st, st.models[m].regions[i].id)]]]

\* Property.deserialize(doc, seed=..., num_samples=...), after
\* prop["name"] = prop_name; Distribution.deserialize spawns the seed of an
\* input Property from the Model's seed, which has n children so far
Property_deserialize(doc, name, entropy, n, num_samples) ==
    IF "distribution" \in DOMAIN doc
    THEN [name |-> name, prop_type |-> "input",
          distribution |-> doc.distribution.name, equation |-> NoFormula,
          seed |-> SpawnChild(entropy, n), draws |-> 0,
          num_samples |-> num_samples, params |-> doc.distribution.params,
          values |-> NoValues, stats |-> NoStats]
    ELSE [name |-> name, prop_type |-> "result",
          distribution |-> None, equation |-> doc.equation,
          seed |-> NoSeed, draws |-> 0,
          num_samples |-> 0, params |-> <<>>,
          values |-> NoValues, stats |-> NoStats]

\* the exception that ends a loop of calls: that of the first call that
\* raises, None when none does
FirstError(runs) ==
    IF \A j \in 1..Len(runs) : runs[j].err = None THEN None
    ELSE runs[CHOOSE j \in 1..Len(runs) :
                 /\ runs[j].err # None
                 /\ \A k \in 1..(j - 1) : runs[k].err = None].err

\* Region.deserialize, the inputs loop: deserialize, run_calculation(); the
\* j-th input takes child n + j - 1 of the Model's seed
DeserializeInputs(docs, entropy, n, num_samples) ==
    [j \in 1..Len(docs) |->
        Property_run_calculation(
            Property_deserialize(docs[j].val, docs[j].key, entropy,
                                 n + j - 1, num_samples),
            <<>>)]

\* Region.deserialize, the results loop: run_calculation with the values
\* of the inputs bound to their aliases
DeserializeResults(docs, inputs) ==
    [j \in 1..Len(docs) |->
        Property_run_calculation(
            Property_deserialize(docs[j].val, docs[j].key, 0, 0, 0),
            [k \in 1..Len(inputs) |->
                [key |-> variable(inputs[k].p), val |-> inputs[k].p.values]])]

\* Region.deserialize(doc, seed=..., num_samples=...): the Region is
\* created as cls(serial_dict.pop("name", "region"))
Region_deserialize(doc, entropy, n, num_samples) ==
    LET Built(ins, res) ==
            [name |-> IF "name" \in DOMAIN doc THEN doc.name ELSE "region",
             composition |-> doc.composition,
             inputs |-> [j \in 1..Len(ins) |->
                           [key |-> doc.inputs[j].key, val |-> ins[j].p]],
             results |-> [j \in 1..Len(res) |->
                            [key |-> doc.results[j].key, val |-> res[j].p]]]
        Outcome(ins, res, err) ==
            IF err # None THEN [err |-> err, region |-> NoneValue]
            ELSE [err |-> None, region |-> Built(ins, res)]
        ResultsLoop(ins, res) ==
            Outcome(ins, res, FirstError(ins \o res))
        InputsLoop(ins) ==
            ResultsLoop(ins, DeserializeResults(doc.results, ins))
    IN InputsLoop(DeserializeInputs(doc.inputs, entropy, n, num_samples))

\* the children of the Model's seed taken by the inputs of the first i
\* Regions of serial_dict["regions"]
RECURSIVE SpawnedBy(_, _)
SpawnedBy(docs, i) ==
    IF i = 0 THEN 0 ELSE SpawnedBy(docs, i - 1) + Len(docs[i].val.inputs)

\* Model.deserialize, the loop over serial_dict["regions"]
DeserializeRegions(docs, entropy, num_samples) ==
    [i \in 1..Len(docs) |->
        Region_deserialize(docs[i].val, entropy, SpawnedBy(docs, i - 1),
                           num_samples)]

\* Model.deserialize(serial_dict): the Model it returns, or the exception
Model_deserialize(doc) ==
    LET Built(rs) ==
            [name |-> doc.name, entropy |-> doc.seed,
             n_children_spawned |-> SpawnedBy(doc.regions, Len(doc.regions)),
             num_samples |-> doc.num_samples,
             results |-> <<>>,
             regions |-> [i \in 1..Len(rs) |->
                            [key |-> doc.regions[i].key, val |-> rs[i].region]]]
        Outcome(rs, err) ==
            IF err # None THEN [err |-> err, model |-> NoneValue]
            ELSE [err |-> None, model |-> Built(rs)]
        RegionsLoop(rs) == Outcome(rs, FirstError(rs))
    IN RegionsLoop(DeserializeRegions(doc.regions, doc.seed, doc.num_samples))

(***************************************************************************)
(* SpecResult: one Model and the Regions A and B, each with a result       *)
(* r = p*q over inputs of their own, C with a result u whose formula is    *)
(* the literal 2, and a second Region named A without Properties.          *)
(***************************************************************************)

ResultPool ==
  LET
    \* "2"
    Formula_2 == Formula(1, ConstantNode("int", 2))
  IN
    << NewProperty("p", "uniform", NoFormula, DefaultNumSamples, 1),
       NewProperty("q", "normal", NoFormula, DefaultNumSamples, 2),
       NewProperty("r", None, Formula_pq, DefaultNumSamples, 3),
       NewProperty("p", "normal", NoFormula, DefaultNumSamples, 4),
       NewProperty("q", "normal", NoFormula, DefaultNumSamples, 5),
       NewProperty("r", None, Formula_pq, DefaultNumSamples, 6),
       NewProperty("s", "uniform", NoFormula, DefaultNumSamples, 7),
       NewProperty("u", None, Formula_2, DefaultNumSamples, 8) >>

\* A.add_properties(p, q, r); B.add_properties(p', q', r'); C.add_properties(s, u)
ResultHeap ==
    LET s0 == [EmptyHeap EXCEPT !.props = ResultPool, !.built = Len(ResultPool)]
        s1 == Region_add_properties(s0, 1, <<1, 2, 3>>).st
        s2 == Region_add_properties(s1, 2, <<4, 5, 6>>).st
    IN Region_add_properties(s2, 4, <<7, 8>>).st

InitResult ==
    /\ props = ResultHeap.props
    /\ regions = ResultHeap.regions
    /\ built = ResultHeap.built
    /\ simulation = NewSimulation("sim", "single")
    /\ \E s1 \in SeedSet, n \in SampleCounts :
          models = [m \in ModelIds |-> NewModel(ModelName(m), s1, n)]
    /\ last = NoCall

\* model.get_result(); ret is the dict returned
ModelGetResult(m, strict) ==
    LET res == Model_get_result(St, m, strict)
    IN /\ Becomes(res.st)
       /\ last' = [Call("get_result", m, <<>>, res.err)
                     EXCEPT !.ret = res.st.models[m].results]

\* Model.deserialize(model.serialize()); ret is the Model returned
ModelRoundTrip(m) ==
    LET res == Model_deserialize(Model_serialize(St, m))
    IN /\ UNCHANGED <<props, regions, models, built, simulation>>
       /\ last' = [Call("round_trip", m, <<>>, res.err) EXCEPT !.ret = res.model]

NextResult ==
    \/ \E rs \in {<<1>>, <<2>>, <<3>>, <<4>>, <<1, 2>>} : ModelAddRegions(1, rs)
    \/ \E config \in {CorrectConfig(1, 1), <<>>} : ModelRun(1, config)
    \/ \E strict \in BOOLEAN : ModelGetResult(1, strict)
    \/ ModelRoundTrip(1)

SpecResult == InitResult /\ [][NextResult]_vars

(***************************************************************************)
(* SpecProp: the calls made on Property objects that are in no Region:     *)
(* two input Properties created with num_samples = 2 and two result        *)
(* Properties.                                                             *)
(***************************************************************************)

PropPool ==
  LET
    \* "x+y"
    Formula_xy == Formula(3, BinOpNode("Add", NameNode("x"), NameNode("y")))
  IN
  LET
    \* "x"
    Formula_x == Formula(1, NameNode("x"))
  IN
    << NewProperty("p", "uniform", NoFormula, 2, 1),
       NewProperty("q", "normal", NoFormula, 2, 2),
       NewProperty("r", None, Formula_x, 0, 3),
       NewProperty("t", None, Formula_xy, 0, 4) >>

InitProp ==
    /\ props = PropPool
    /\ regions = EmptyHeap.regions
    /\ models = [m \in ModelIds |-> NewModel(ModelName(m), 7, 2)]
    /\ built = Len(PropPool)
    /\ simulation = NewSimulation("sim", "single")
    /\ last = NoCall

\* the keyword arguments of run_calculation on an input Property
InputKwargs(kind) ==
    {<<>>, Params(kind, 1), [mean |-> 1]}

\* the keyword arguments of run_calculation on a result Property
ResultKwargs ==
  LET
    \* the vectors and numbers bound to x and y
    BoundValues ==
        {Number(2), Vector(<<1, 2>>), Vector(<<3, 1, 2>>), Vector(<<4>>)}
  IN
    {<<[key |-> "x", val |-> v]>> : v \in BoundValues}
    \cup {<<[key |-> "x", val |-> v], [key |-> "y", val |-> Vector(<<1, 1>>)]>> :
             v \in {Vector(<<1, 2>>), Vector(<<3, 1, 2>>)}}
    \cup {<<>>, <<[key |-> "x", val |-> Vector(<<0, 1>>)]>>}

PropertyRunCalculation(i, kwargs) ==
    /\ props[i].draws + props[i].num_samples <= MaxDraws
    /\ LET res == Property_run_calculation(props[i], kwargs)
       IN /\ props' = [props EXCEPT ![i] = res.p]
          /\ last' = [Call("run_calculation", 0, [i |-> i, kwargs |-> kwargs],
                           res.err) EXCEPT !.ret = res.ret]
    /\ UNCHANGED <<regions, models, built, simulation>>

\* what a call that returns a new Property leaves on the heap
ReturnsProperty(res) ==
    IF res.err = None
    THEN /\ Len(props) < Len(PropPool) + MaxCopies
         /\ props' = Append(props, res.new)
    ELSE props' = props

\* props[i] <op> props[j]
PropertyArith(op, i, j) ==
    /\ LET res == Property_arith(op, props[i], props[j])
       IN /\ ReturnsProperty(res)
          /\ last' = Call("arith", 0, [op |-> op, i |-> i, j |-> j], res.err)
    /\ UNCHANGED <<regions, models, built, simulation>>

\* props[i] <op> n
PropertyArithScalar(op, i, n) ==
    /\ LET res == Property_arith_scalar(op, props[i], n)
       IN /\ ReturnsProperty(res)
          /\ last' = Call("arith_scalar", 0, [op |-> op, i |-> i, n |-> n],
                          res.err)
    /\ UNCHANGED <<regions, models, built, simulation>>

\* -props[i]
PropertyNeg(i) ==
    /\ LET res == Property__neg__(props[i])
       IN /\ ReturnsProperty(res)
          /\ last' = Call("neg", 0, [i |-> i], res.err)
    /\ UNCHANGED <<regions, models, built, simulation>>

NextProp ==
    \/ \E i \in {1, 2} : \E kwargs \in InputKwargs(props[i].distribution) :
          PropertyRunCalculation(i, kwargs)
    \/ \E i \in {3, 4}, kwargs \in ResultKwargs : PropertyRunCalculation(i, kwargs)
    \/ \E op \in DOMAIN ArithSymbols, i \in {1}, j \in {2, 3} : PropertyArith(op, i, j)
    \/ \E op \in DOMAIN ArithSymbols, i \in {3}, n \in {0, 2} : PropertyArithScalar(op, i, n)
    \/ \E i \in {1, 3} : PropertyNeg(i)

SpecProp == InitProp /\ [][NextProp]_vars

(***************************************************************************)
(* SpecEval: evaluate(formula, variables) applied to a formula and         *)
(* bindings the caller chose.                                              *)
(***************************************************************************)

InitEval ==
  LET
    \* the objects bound to x and y
    Bindings ==
      LET
        StrValue == [tag |-> "str"]
      IN
        { <<>>,
          <<[key |-> "x", val |-> Number(2)], [key |-> "y", val |-> Number(0)]>>,
          <<[key |-> "x", val |-> Number(0)], [key |-> "y", val |-> Number(3)]>>,
          <<[key |-> "x", val |-> Vector(<<1, 2>>)],
            [key |-> "y", val |-> Vector(<<3, 4>>)]>>,
          <<[key |-> "x", val |-> Vector(<<0, 2>>)],
            [key |-> "y", val |-> Vector(<<3, 4>>)]>>,
          <<[key |-> "x", val |-> Vector(<<1, 2>>)],
            [key |-> "y", val |-> Vector(<<3, 4, 5>>)]>>,
          <<[key |-> "x", val |-> NoneValue], [key |-> "y", val |-> Number(1)]>>,
          <<[key |-> "x", val |-> StrValue], [key |-> "y", val |-> Number(1)]>> }
  IN
  LET
    \* lengths of the formula text
    Lengths == {MAX_FORMULA_LENGTH - 200, MAX_FORMULA_LENGTH, MAX_FORMULA_LENGTH + 1}
  IN
  LET
    \* parse trees of formulas: "x", "und", "2", "2.0", "'a'", "True", "None",
    \* "2j", "1/0", "x*y", "x/y", "x+'a'", "x//y", "-x", "+x", "f(x)", "x<y",
    \* "und+'a'", "'a'+und", "-'a'", "x**2", "(1/0)//x"
    Trees ==
        { NameNode("x"), NameNode("und"),
          ConstantNode("int", 2), ConstantNode("float", 2),
          ConstantNode("str", 0), ConstantNode("bool", 1),
          ConstantNode("NoneType", 0), ConstantNode("complex", 0),
          BinOpNode("Div", ConstantNode("int", 1), ConstantNode("int", 0)),
          BinOpNode("Mult", NameNode("x"), NameNode("y")),
          BinOpNode("Div", NameNode("x"), NameNode("y")),
          BinOpNode("Add", NameNode("x"), ConstantNode("str", 0)),
          BinOpNode("FloorDiv", NameNode("x"), NameNode("y")),
          UnaryOpNode("USub", NameNode("x")),
          UnaryOpNode("UAdd", NameNode("x")),
          OtherNode("Call"), OtherNode("Compare"),
          BinOpNode("Add", NameNode("und"), ConstantNode("str", 0)),
          BinOpNode("Add", ConstantNode("str", 0), NameNode("und")),
          UnaryOpNode("USub", ConstantNode("str", 0)),
          BinOpNode("Pow", NameNode("x"), ConstantNode("int", 2)),
          BinOpNode("FloorDiv",
                    BinOpNode("Div", ConstantNode("int", 1), ConstantNode("int", 0)),
                    NameNode("x")),
          ParseFailure }
  IN
    /\ props = <<>>
    /\ regions = EmptyHeap.regions
    /\ models = [m \in ModelIds |-> NewModel(ModelName(m), 7, 2)]
    /\ built = 0
    /\ simulation = NewSimulation("sim", "single")
    /\ \E tree \in Trees, len \in Lengths, vs \in Bindings :
          last = [Call("input", 0,
                       [formula |-> Formula(len, tree), variables |-> vs],
                       None) EXCEPT !.ret = NoneValue, !.cfg = ""]

\* evaluate(formula, variables): err the exception, cfg its message, ret
\* the value returned
Evaluate ==
    /\ last.op = "input"
    /\ LET res == evaluate(last.args.formula, last.args.variables)
       IN last' = [Call("evaluate", 0, last.args, res.err)
                     EXCEPT !.ret = res.val, !.cfg = res.msg]
    /\ UNCHANGED <<props, regions, models, built, simulation>>

NextEval == Evaluate

SpecEval == InitEval /\ [][NextEval]_vars

(***************************************************************************)
(* Distribution._intersept_kwargs: the friendly parameters of a kind       *)
(* turned into the arguments of the SciPy function.  A quotient is kept as *)
(* a fraction in lowest terms, exp(mean) as a term; kwargs.get of a        *)
(* missing parameter is None, and arithmetic on None a TypeError.          *)
(***************************************************************************)
\* a / b of two Python numbers, b # 0
TrueDiv(a, b) ==
    LET Abs(x) == IF x < 0 THEN -x ELSE x
        g == CHOOSE d \in 1..Abs(b) :
                /\ a % d = 0 /\ b % d = 0
                /\ \A e \in (d + 1)..Abs(b) : ~(a % e = 0 /\ b % e = 0)
        sign == IF b < 0 THEN -1 ELSE 1
    IN [num |-> sign * (a \div g), den |-> sign * (b \div g)]

\* as Distribution_intersept_kwargs, with scale = right for uniform
Distribution_intersept_kwargs_ScaleMax(name, kwargs) ==
    LET Has(k) == k \in DOMAIN kwargs
        left == IF Has("min") THEN kwargs["min"] ELSE 0
        right == IF Has("max") THEN kwargs["max"] ELSE 0
        mean == IF Has("mean") THEN kwargs["mean"] ELSE 0
        std == IF Has("std") THEN kwargs["std"] ELSE 0
        mode == IF Has("mode") THEN kwargs["mode"] ELSE 0
        Get(k) == IF Has(k) THEN kwargs[k] ELSE None
        Native(d) == [err |-> None, native |-> d]
        Fails(e) == [err |-> e, native |-> <<>>]
    IN CASE name = "uniform" ->
              IF ~(Has("min") /\ Has("max")) THEN Fails("TypeError")
              ELSE Native([loc |-> left, scale |-> right])
         [] name = "normal" ->
              Native([loc |-> Get("mean"), scale |-> Get("std")])
         [] name = "beta" ->
              Native([a |-> Get("a"), b |-> Get("b"),
                      loc |-> Get("min"), scale |-> Get("max")])
         [] name = "lognormal" ->
              IF ~Has("mean") THEN Fails("TypeError")
              ELSE Native([s |-> Get("std"), loc |-> Get("shift"),
                           scale |-> [fn |-> "exp", of |-> mean]])
         [] name = "triangular" ->
              IF ~(Has("mode") /\ Has("min") /\ Has("max"))
              THEN Fails("TypeError")
              ELSE IF right - left = 0 THEN Fails("ZeroDivisionError")
              ELSE Native([c |-> TrueDiv(mode - left, right - left),
                           loc |-> left, scale |-> right - left])
         [] name = "truncated normal" ->
              IF ~(Has("min") /\ Has("max") /\ Has("mean") /\ Has("std"))
              THEN Fails("TypeError")
              ELSE IF std = 0 THEN Fails("ZeroDivisionError")
              ELSE Native([a |-> TrueDiv(left - mean, std),
                           b |-> TrueDiv(right - mean, std),
                           loc |-> mean, scale |-> std])
         [] OTHER -> Fails("NotImplementedError")

\* Distribution._intersept_kwargs(**kwargs) of a Distribution of kind name
Distribution_intersept_kwargs(name, kwargs) ==
    LET Has(k) == k \in DOMAIN kwargs
        left == IF Has("min") THEN kwargs["min"] ELSE 0
        right == IF Has("max") THEN kwargs["max"] ELSE 0
        mean == IF Has("mean") THEN kwargs["mean"] ELSE 0
        std == IF Has("std") THEN kwargs["std"] ELSE 0
        mode == IF Has("mode") THEN kwargs["mode"] ELSE 0
        Get(k) == IF Has(k) THEN kwargs[k] ELSE None
        Native(d) == [err |-> None, native |-> d]
        Fails(e) == [err |-> e, native |-> <<>>]
    IN CASE name = "uniform" ->
              IF ~(Has("min") /\ Has("max")) THEN Fails("TypeError")
              ELSE Native([loc |-> left, scale |-> right - left])
         [] name = "normal" ->
              Native([loc |-> Get("mean"), scale |-> Get("std")])
         [] name = "beta" ->
              Native([a |-> Get("a"), b |-> Get("b"),
                      loc |-> Get("min"), scale |-> Get("max")])
         [] name = "lognormal" ->
              IF ~Has("mean") THEN Fails("TypeError")
              ELSE Native([s |-> Get("std"), loc |-> Get("shift"),
                           scale |-> [fn |-> "exp", of |-> mean]])
         [] name = "triangular" ->
              IF ~(Has("mode") /\ Has("min") /\ Has("max"))
              THEN Fails("TypeError")
              ELSE IF right - left = 0 THEN Fails("ZeroDivisionError")
              ELSE Native([c |-> TrueDiv(mode - left, right - left),
                           loc |-> left, scale |-> right - left])
         [] name = "truncated normal" ->
              IF ~(Has("min") /\ Has("max") /\ Has("mean") /\ Has("std"))
              THEN Fails("TypeError")
              ELSE IF std = 0 THEN Fails("ZeroDivisionError")
              ELSE Native([a |-> TrueDiv(left - mean, std),
                           b |-> TrueDiv(right - mean, std),
                           loc |-> mean, scale |-> std])
         [] OTHER -> Fails("NotImplementedError")

(***************************************************************************)
(* SpecKwargs: _intersept_kwargs applied to a kind and parameters the      *)
(* caller chose.                                                           *)
(***************************************************************************)
InitKwargs ==
  LET
    \* the numbers given as parameters
    ParamNumbers == {0, 1, 2, 3, 5}
  IN
    /\ props = <<>>
    /\ regions = <<>>
    /\ models = <<>>
    /\ built = 0
    /\ simulation = NewSimulation("sim", "single")
    /\ \E name \in DistributionNames :
          \E kwargs \in [DISTRIBUTIONS_KWARGS[name] -> ParamNumbers] \cup {<<>>} :
             last = [Call("input", 0, [name |-> name, kwargs |-> kwargs], None)
                       EXCEPT !.ret = <<>>]

\* Distribution(name)._intersept_kwargs(**kwargs); ret is the dict returned
InterseptKwargs ==
    /\ last.op = "input"
    /\ LET res == Distribution_intersept_kwargs(last.args.name, last.args.kwargs)
       IN last' = [Call("_intersept_kwargs", 0, last.args, res.err)
                     EXCEPT !.ret = res.native]
    /\ UNCHANGED <<props, regions, models, built, simulation>>

NextKwargs == InterseptKwargs

SpecKwargs == InitKwargs /\ [][NextKwargs]_vars

(***************************************************************************)
(* SpecAttach: a Model that is given Regions by add_regions only; the      *)
(* Regions are those of SpecResult, each with Properties of its own.       *)
(***************************************************************************)
\* model.add_regions with one Region or with two
NextAttach ==
    \/ \E r \in RegionIds : ModelAddRegions(1, <<r>>)
    \/ \E r1 \in RegionIds, r2 \in RegionIds : ModelAddRegions(1, <<r1, r2>>)

SpecAttach == InitResult /\ [][NextAttach]_vars

(***************************************************************************)
(* SpecEquiv: two Models created with the same seed and sample count.      *)
(* Model 1 is given the Regions A (p, q, r) and B (p', q', r') with        *)
(* add_regions.  Model 2 is given Regions A and B without Properties, and  *)
(* then the same Properties in the same order by add_properties calls in   *)
(* keyword form, each call taking the next one or more of them.            *)
(***************************************************************************)
EquivHeap ==
    LET s0 == [props |-> ResultPool,
               regions |-> [r \in RegionIds |->
                              IF r \in {1, 3} THEN NewRegion("A", "Sandstone")
                              ELSE NewRegion("B", None)],
               models |-> [m \in ModelIds |-> NewModel("m", 0, 0)],
               built |-> Len(ResultPool)]
        s1 == Region_add_properties(s0, 1, <<1, 2, 3>>).st
    IN Region_add_properties(s1, 2, <<4, 5, 6>>).st

InitEquiv ==
    /\ props = EquivHeap.props
    /\ regions = EquivHeap.regions
    /\ built = EquivHeap.built
    /\ simulation = NewSimulation("sim", "single")
    /\ \E s1 \in SeedSet, n \in SampleCounts :
          models = [m \in ModelIds |-> NewModel(ModelName(m), s1, n)]
    /\ last = NoCall

\* the Properties of Model 1's Regions in the order they were added
EquivOrder ==
    << [reg |-> "A", p |-> 1], [reg |-> "A", p |-> 2], [reg |-> "A", p |-> 3],
       [reg |-> "B", p |-> 4], [reg |-> "B", p |-> 5], [reg |-> "B", p |-> 6] >>

\* the Properties Model 2's Regions hold so far
EquivHeld ==
    Len(regions[3].inputs) + Len(regions[3].results)
    + Len(regions[4].inputs) + Len(regions[4].results)

\* model1.add_regions(A, B), in one call or in two
EquivAddRegions ==
    \E rs \in {<<1, 2>>, <<1>>, <<2>>} :
       /\ rs[1] = Len(models[1].regions) + 1
       /\ ModelAddRegions(1, rs)

\* model2.add_regions(A, B) with the Regions that hold no Property
EquivAddEmptyRegions ==
    \E rs \in {<<3, 4>>, <<3>>, <<4>>} :
       /\ rs[1] = Len(models[2].regions) + 3
       /\ ModelAddRegions(2, rs)

\* model2.add_properties(A=[...], B=[...]) with the next c Properties
EquivAddProperties ==
  LET
    \* the keyword arguments that pass the next c Properties: A=[...], B=[...]
    EquivKwargs(c) ==
        LET next == SubSeq(EquivOrder, EquivHeld + 1, EquivHeld + c)
            Of(reg) == SelectSeq(next, LAMBDA e : e.reg = reg)
            Kw(reg) == IF Of(reg) = <<>> THEN <<>>
                       ELSE <<[reg |-> reg,
                               props |-> [i \in 1..Len(Of(reg)) |-> Of(reg)[i].p]]>>
        IN Kw("A") \o Kw("B")
  IN
    \E n \in 1..Len(EquivOrder) :
       /\ Len(models[2].regions) = 2
       /\ EquivHeld + n <= Len(EquivOrder)
       /\ LET res == Model_add_properties(St, 2, <<>>, EquivKwargs(n))
          IN /\ Becomes(res.st)
             /\ last' = Call("add_properties_kw", 2, EquivKwargs(n), res.err)

NextEquiv ==
    \/ EquivAddRegions
    \/ EquivAddEmptyRegions
    \/ EquivAddProperties

SpecEquiv == InitEquiv /\ [][NextEquiv]_vars

(***************************************************************************)
(* SpecUpdate: Model.update between the calls that attach and the run.      *)
(***************************************************************************)
\* Model.update(**update_kwargs): one setattr per keyword, in order; an
\* attribute the Model does not have raises AttributeError, the keywords
\* before it are already set.  Nothing but the Model's own attribute changes.
Model_update(st, m, kwargs) ==
    LET RECURSIVE Loop(_, _)
        Loop(st0, i) ==
            IF i > Len(kwargs) THEN [st |-> st0, err |-> None]
            ELSE IF kwargs[i].attr = "num_samples"
                 THEN Loop([st0 EXCEPT !.models[m].num_samples = kwargs[i].val],
                           i + 1)
                 ELSE [st |-> st0, err |-> "AttributeError"]
    IN Loop(st, 1)

ModelUpdate(m, kwargs) ==
    LET res == Model_update(St, m, kwargs)
    IN /\ Becomes(res.st)
       /\ last' = Call("update", m, kwargs, res.err)

NextUpdate ==
    \/ \E rs \in {<<1>>, <<2>>, <<1, 2>>} : ModelAddRegions(1, rs)
    \/ \E ps \in {<<>>, <<6>>} : ModelAddPropertiesArgs(1, ps)
    \/ \E kwargs \in {<<[attr |-> "num_samples", val |-> 1]>>,
                      <<[attr |-> "num_samples", val |-> 2]>>,
                      <<[attr |-> "samples", val |-> 1]>>} :
          ModelUpdate(1, kwargs)
    \/ ModelRun(1, CorrectConfig(1, 1))

SpecUpdate == Init /\ [][NextUpdate]_vars

(***************************************************************************)
(* SpecSim: Models given to a Simulation.                                   *)
(***************************************************************************)
\* Model.__eq__(other): isinstance(other, Model) and self.name == other.name
Model_eq(self, other) ==
    other.class = "Model" /\ self.name = other.name

\* Simulation.add_models(*models)
Simulation_add_models(sim, heap, ms) ==
    LET \* `model in self.models`: self.models is a dict keyed by name, so the
        \* lookup compares the keys, which are strings, with the Model; str
        \* does not know Model and Python falls back on Model.__eq__
        Held(sim0, mod) ==
            \E key \in DictKeys(sim0.models) :
               Model_eq(mod, [class |-> "str", name |-> key])
        RECURSIVE Loop(_, _)
        Loop(sim0, i) ==
            IF i > Len(ms) THEN [sim |-> sim0, err |-> None]
            ELSE IF Held(sim0, heap[ms[i]])
                 THEN [sim |-> sim0, err |-> "KeyError"]
                 ELSE Loop([sim0 EXCEPT !.models =
                                DictSet(@, heap[ms[i]].name, ms[i])], i + 1)
    IN IF sim.mode = "single" /\ Len(ms) > 1
       THEN [sim |-> sim, err |-> "TypeError"]
       ELSE Loop(sim, 1)

\* three Models, two of them of one name, and a Simulation holding none
InitSim ==
    /\ props = BuiltHeap.props
    /\ regions = BuiltHeap.regions
    /\ built = BuiltHeap.built
    /\ models = <<NewModel("m1", 7, 2), NewModel("m2", 7, 2),
                  NewModel("m1", 8, 2)>>
    /\ \E mode \in {"single", "multi"} :
          simulation = NewSimulation("sim", mode)
    /\ last = NoCall

SimulationAddModels(ms) ==
    LET res == Simulation_add_models(simulation, models, ms)
    IN /\ simulation' = res.sim
       /\ last' = Call("sim_add_models", 0, ms, res.err)
       /\ UNCHANGED <<props, regions, models, built>>

NextSim ==
    \E ms \in {<<a>> : a \in 1..3} \cup {<<a, b>> : a, b \in 1..3} :
       SimulationAddModels(ms)

SpecSim == InitSim /\ [][NextSim]_vars

(***************************************************************************)
(* What is observable of a Model.                                          *)
(***************************************************************************)
\* the input Property objects held in the Regions of Model m
AttachedInputs(m) ==
    UNION {DictIds(regions[models[m].regions[i].id].inputs) :
              i \in 1..Len(models[m].regions)}

\* what can be read through Model m: its seed state and sample count, its
\* Regions and their Properties with seeds, generator positions, sample
\* counts, sample vectors and stats
ModelView(m) ==
  LET
    \* the Property objects of a dict, in its order
    Deref(d) == [j \in 1..Len(d) |-> [key |-> d[j].key, prop |-> props[d[j].id]]]
  IN
    [entropy |-> models[m].entropy,
     n_children_spawned |-> models[m].n_children_spawned,
     num_samples |-> models[m].num_samples,
     regions |-> [i \in 1..Len(models[m].regions) |->
                    LET e == models[m].regions[i]
                    IN [key |-> e.key,
                        name |-> regions[e.id].name,
                        composition |-> regions[e.id].composition,
                        inputs |-> Deref(regions[e.id].inputs),
                        results |-> Deref(regions[e.id].results)]]]

\* config names exactly the Regions of Model m, in each exactly its input
\* Properties, and for each exactly the parameters of its kind
ConfigMatches(m, config) ==
    /\ DOMAIN config = DictKeys(models[m].regions)
    /\ \A rn \in DOMAIN config :
          LET ins == regions[DictGet(models[m].regions, rn)].inputs
          IN /\ DOMAIN config[rn] = DictKeys(ins)
             /\ \A pn \in DOMAIN config[rn] :
                   DOMAIN config[rn][pn] =
                      DISTRIBUTIONS_KWARGS[props[DictGet(ins, pn)].distribution]

\* for every input Property of every Region of Model m, config supplies
\* exactly the parameters of its kind
ConfigSupplies(m, config) ==
    \A i \in 1..Len(models[m].regions) :
       LET e == models[m].regions[i]
           ins == regions[e.id].inputs
       IN \A j \in 1..Len(ins) :
             /\ e.key \in DOMAIN config
             /\ ins[j].key \in DOMAIN config[e.key]
             /\ DOMAIN config[e.key][ins[j].key] =
                   DISTRIBUTIONS_KWARGS[props[ins[j].id].distribution]

(***************************************************************************)
(* C1: after any sequence of add_regions and add_properties calls on one   *)
(* Model, no two input Properties held in the Model's regions carry the    *)
(* same child seed.                                                        *)
(***************************************************************************)
C1_UniqueSeeds ==
    \A p1 \in AttachedInputs(1), p2 \in AttachedInputs(1) :
       p1 # p2 => props[p1].seed # props[p2].seed

(***************************************************************************)
(* C3: an input Property that holds a child seed and is seeded again by a  *)
(* later add_regions or add_properties holds a different child seed        *)
(* afterwards.                                                             *)
(***************************************************************************)
\* the call of this step has seeded Property object p (again)
SeededByStep(p) ==
    /\ last'.err = None
    /\ \/ /\ last'.op = "add_regions"
          /\ \E i \in 1..Len(last'.args) :
                p \in DictIds(regions[last'.args[i]].inputs)
       \/ /\ last'.op = "add_properties"
          /\ Len(last'.args) > 0
          /\ p \in AttachedInputs(last'.m)
       \/ /\ last'.op = "add_properties_kw"
          /\ \E i \in 1..Len(last'.args) :
                p \in DictIds(regions[DictGet(models[last'.m].regions,
                                               last'.args[i].reg)].inputs)

\* C3: a Property seeded again holds a child seed different from before
C3_ReseedChangesSeed ==
    [][\A p \in 1..Len(props) :
          (props[p].seed.spawn_key # <<>> /\ SeededByStep(p))
             => props'[p].seed # props[p].seed]_vars

(***************************************************************************)
(* C5: a Model holds at most one Region per name, add_regions raises       *)
(* KeyError for a Region whose name is already a key (whatever its         *)
(* composition), and the Region first attached under a name is never       *)
(* replaced.                                                               *)
(***************************************************************************)
\* the names of the Regions of rs before position i, and the keys held
NamesBefore(m, rs, i) ==
    DictKeys(models[m].regions) \cup {regions[rs[j]].name : j \in 1..(i - 1)}

C5_OnePerName ==
    /\ \A r1 \in RegionIds, r2 \in RegionIds :
          regions[r1].name = regions[r2].name
             => Region__eq__(regions[r1], regions[r2])
    /\ \A m \in ModelIds :
          \A i \in 1..Len(models[m].regions), j \in 1..Len(models[m].regions) :
             i # j => /\ models[m].regions[i].key # models[m].regions[j].key
                      /\ regions[models[m].regions[i].id].name
                            # regions[models[m].regions[j].id].name

C5_FirstKept ==
    /\ \A m \in ModelIds :
          \A i \in 1..Len(models[m].regions) :
             /\ i <= Len(models'[m].regions)
             /\ models'[m].regions[i] = models[m].regions[i]
    /\ last'.op = "add_regions" =>
          ((last'.err = "KeyError") <=>
              \E i \in 1..Len(last'.args) :
                 regions[last'.args[i]].name
                    \in NamesBefore(last'.m, last'.args, i))

\* C5: one Region per name in every state, the Region first attached under
\* a name is kept by every step, and add_regions raises KeyError exactly
\* for a name already held
C5_RegionIdentity == [](C5_OnePerName) /\ [][C5_FirstKept]_vars

\* a second Region named "A" was refused, the first is still held
C5_Witness ==
    /\ last.op = "add_regions" /\ last.err = "KeyError"
    /\ \E i \in 1..Len(last.args) : last.args[i] = 3
    /\ DictHas(models[1].regions, "A")
    /\ DictGet(models[1].regions, "A") = 1
    /\ regions[1].composition # regions[3].composition

(***************************************************************************)
(* C6: a call of Model.add_regions or Region.add_properties that rejects   *)
(* one of its items as a duplicate leaves the container as it was: no item *)
(* inserted, no seed spawned, no sample vector reset.                      *)
(***************************************************************************)
C6_NoPartialInsert ==
    [][(last'.op \in {"add_regions", "region_add_properties"}
          /\ last'.err = "KeyError")
         => UNCHANGED <<props, regions, models>>]_vars

(***************************************************************************)
(* C8: check_config(config) returns True exactly when, for every input     *)
(* Property of every Region, config supplies exactly the parameter names   *)
(* of the Property's distribution kind.                                    *)
(***************************************************************************)
C8_TrueIffSupplied ==
    last.op = "check_config" =>
       (last.ret <=> ConfigSupplies(last.m, last.cfg))

\* C8 as amended: True exactly when config names exactly the Model's
\* regions, in each region exactly its input Properties, and for each
\* Property exactly the parameter names of its kind
C8_TrueIffMatches ==
    last.op = "check_config" =>
       (last.ret <=> ConfigMatches(last.m, last.cfg))

C8_Witness ==
    /\ last.op = "check_config" /\ last.ret
    /\ Len(models[1].regions) = 2
    /\ \E rn \in DOMAIN last.cfg : \E pn \in DOMAIN last.cfg[rn] :
          /\ "max" \in DOMAIN last.cfg[rn][pn]
          /\ last.cfg[rn][pn]["max"] = 3

(***************************************************************************)
(* C9: run(config) with a config that check_config rejects raises KeyError *)
(* before any Property is evaluated: values, stats, parameters and         *)
(* generator states are as before the call.                                *)
(***************************************************************************)
C9_RejectedRunChangesNothing ==
    [][(last'.op = "run" /\ ~ConfigMatches(last'.m, last'.cfg))
         => (last'.err = "KeyError"
             /\ UNCHANGED <<props, regions, models, built>>)]_vars

\* a run was refused on a Model that holds input Properties and whose
\* config names every one of them
C9_Witness ==
    /\ last.op = "run" /\ last.err = "KeyError"
    /\ AttachedInputs(1) # {}
    /\ ConfigSupplies(1, last.cfg)

(***************************************************************************)
(* C2: two Models created with the same seed and sample count and given    *)
(* the same calls with equal arguments raise the same errors, give every   *)
(* input Property the same child seed and hold identical sample vectors    *)
(* and stats.                                                              *)
(***************************************************************************)
C2_Reproducible ==
    /\ ModelView(1) = ModelView(2)
    /\ last.op # "init" => last.ret

\* both Models have run: two Regions, sampled inputs, an evaluated result
C2_Witness ==
    /\ last.op = "run" /\ last.err = None
    /\ Len(models[2].regions) = 2
    /\ \A p \in AttachedInputs(2) : props[p].values.tag = "sample"
    /\ \E i \in 1..Len(models[2].regions) :
          \E j \in 1..Len(regions[models[2].regions[i].id].results) :
             props[regions[models[2].regions[i].id].results[j].id].values.tag
                = "binop"

\* the Region objects held by both Models
SharedRegions == DictIds(models[1].regions) \cap DictIds(models[2].regions)

(***************************************************************************)
(* C4: when the same Region object is attached to two Models, a later      *)
(* add_regions, add_properties or run on Model 2 leaves the seeds, sample  *)
(* counts, sample vectors and stats observable through Model 1 unchanged.  *)
(***************************************************************************)
C4_NoSharedState ==
    [][(last'.m = 2 /\ SharedRegions # {}) => ModelView(1)' = ModelView(1)]_vars

(***************************************************************************)
(* C7: in every Region no name is a key of both inputs and results, every  *)
(* Property is stored under its own name, input Properties are in inputs   *)
(* only and result Properties in results only, and Region.add_properties   *)
(* raises for a Property whose name is already in either map.              *)
(***************************************************************************)
C7_Partition ==
    \A r \in RegionIds :
       /\ DictKeys(regions[r].inputs) \cap DictKeys(regions[r].results) = {}
       /\ \A j \in 1..Len(regions[r].inputs) :
             /\ props[regions[r].inputs[j].id].name = regions[r].inputs[j].key
             /\ props[regions[r].inputs[j].id].prop_type = "input"
       /\ \A j \in 1..Len(regions[r].results) :
             /\ props[regions[r].results[j].id].name = regions[r].results[j].key
             /\ props[regions[r].results[j].id].prop_type = "result"

C7_DuplicateRaises ==
    last'.op = "region_add_properties" =>
       LET r == last'.args.r
           ps == last'.args.ps
           held == DictKeys(regions[r].inputs) \cup DictKeys(regions[r].results)
       IN (last'.err = "KeyError") <=>
             \E i \in 1..Len(ps) :
                props[ps[i]].name
                   \in held \cup {props[ps[k]].name : k \in 1..(i - 1)}

\* C7: inputs and results are disjoint, keyed by name and of the right
\* kind in every state, and add_properties raises exactly for a name held
C7_RegionMaps == [](C7_Partition) /\ [][C7_DuplicateRaises]_vars

\* a result Property was refused because an input Property has its name
C7_Witness ==
    /\ last.op = "region_add_properties" /\ last.err = "KeyError"
    /\ \E i \in 1..Len(last.args.ps) :
          /\ props[last.args.ps[i]].prop_type = "result"
          /\ DictHas(regions[last.args.r].inputs, props[last.args.ps[i]].name)
    /\ regions[last.args.r].results # <<>>

(***************************************************************************)
(* C10: constructing a Property with both a distribution and an equation,  *)
(* or with neither, raises an error and creates no Property; construction  *)
(* succeeds only when exactly one of the two is supplied.                  *)
(***************************************************************************)
Supplied(a) == a # None

SuppliedFormula(eq) == eq # NoFormula

\* C10: both or neither supplied raises and creates nothing; success only
\* with exactly one
C10_ExactlyOne ==
    [][last'.op = "Property" =>
          LET d == Supplied(last'.args.distribution)
              e == SuppliedFormula(last'.args.equation)
          IN /\ (d <=> e) => (last'.err # None /\ props' = props)
             /\ last'.err = None => ~(d <=> e)]_vars

(***************************************************************************)
(* C11: for evaluated Properties p and q (or a number q), p + q, p - q,    *)
(* p * q, p / q and -p return a new Property whose values are the          *)
(* elementwise combination of the operands' values and leave p and q       *)
(* unchanged.                                                              *)
(***************************************************************************)
\* run_calculation has returned on the Property
Evaluated(p) == DOMAIN p.stats # {}

\* the values the claim expects of the new Property
C11_Expected(call) ==
    CASE call.op = "arith" ->
           Apply(call.args.op, props[call.args.i].values,
                 props[call.args.j].values)
      [] call.op = "arith_scalar" ->
           Apply(call.args.op, props[call.args.i].values, Number(call.args.n))
      [] OTHER -> Value(Negate(props[call.args.i].values))

\* C11: an arithmetic operator applied to evaluated Properties returns a
\* new Property holding the elementwise combination, operands unchanged
C11_ArithmeticReturnsNew ==
    [][(/\ last'.op \in {"arith", "arith_scalar", "neg"}
        /\ Evaluated(props[last'.args.i])
        /\ last'.op = "arith" => Evaluated(props[last'.args.j])
        /\ C11_Expected(last').err = None)
       => /\ last'.err = None
          /\ Len(props') = Len(props) + 1
          /\ \A k \in 1..Len(props) : props'[k] = props[k]
          /\ props'[Len(props')].values = C11_Expected(last').val]_vars

C13_MedianUnbiased ==
    \A i \in 1..Len(props) :
       (props[i].values.tag = "vec" /\ Evaluated(props[i])) =>
          /\ props[i].stats["P90"]
                = Percentile(props[i].values, 10, "median_unbiased")
          /\ props[i].stats["P50"]
                = Percentile(props[i].values, 50, "median_unbiased")
          /\ props[i].stats["P10"]
                = Percentile(props[i].values, 90, "median_unbiased")
          /\ props[i].stats["P90"].v <= props[i].stats["P50"].v
          /\ props[i].stats["P50"].v <= props[i].stats["P10"].v

(***************************************************************************)
(* C15: evaluate raises FormulaSyntaxError for every formula longer than   *)
(* 255 characters, before any parsing or variable lookup, and a formula of *)
(* exactly 255 characters is not rejected by the length check.             *)
(***************************************************************************)
\* C15: a formula of more than 255 characters gets the too-long syntax
\* error whatever it holds, and one of 255 characters does not get it
C15_LengthLimit ==
    last.op = "evaluate" =>
       /\ last.args.formula.len > 255 =>
             (/\ last.err = "FormulaSyntaxError"
              /\ last.cfg = "The formula is too long")
       /\ last.args.formula.len = 255 => last.cfg # "The formula is too long"

\* a formula of 256 characters that does not parse was refused for its
\* length
C15_Witness ==
    /\ last.op = "evaluate"
    /\ last.args.formula.len = 256
    /\ last.args.formula.ast = ParseFailure
    /\ last.cfg = "The formula is too long"

(***************************************************************************)
(* C16: a name absent from the bindings, or bound to something that is     *)
(* neither a number nor a numeric vector, raises FormulaSyntaxError        *)
(* ("Undefined variable") and never FormulaRuntimeError; a name bound to a *)
(* number or a numeric vector, zeros included, resolves to that value.     *)
(***************************************************************************)
\* C16: the formula that is one name evaluates to what the name is bound
\* to when that is a number or a vector of numbers, and raises the
\* undefined-variable syntax error otherwise
C16_UndefinedVariable ==
    (/\ last.op = "evaluate"
     /\ last.args.formula.len <= 255
     /\ last.args.formula.ast.type = "Name")
    => LET b == BindingGet(last.args.variables, last.args.formula.ast.id)
       IN IF b.tag \in {"int", "vec"}
          THEN last.err = None /\ last.ret = b
          ELSE /\ last.err = "FormulaSyntaxError"
               /\ last.cfg = "Undefined variable"

(***************************************************************************)
(* C17: every call to evaluate returns a value or raises                   *)
(* FormulaSyntaxError or FormulaRuntimeError; a FormulaSyntaxError of the  *)
(* walk propagates unchanged, any other exception of the walk surfaces as  *)
(* a FormulaRuntimeError.                                                  *)
(***************************************************************************)
\* C17: the outcome is a value, a FormulaSyntaxError or a
\* FormulaRuntimeError; what the walk returns is returned, its syntax error
\* is raised as it is, its other exceptions as FormulaRuntimeError
C17_ErrorTaxonomy ==
    last.op = "evaluate" =>
       /\ last.err \in {None, "FormulaSyntaxError", "FormulaRuntimeError"}
       /\ (last.args.formula.len <= 255
             /\ last.args.formula.ast.type # "SyntaxError") =>
             LET w == eval_node(last.args.formula.ast, last.args.variables)
             IN /\ w.err = None => (last.err = None /\ last.ret = w.val)
                /\ w.err = "FormulaSyntaxError" =>
                      (last.err = "FormulaSyntaxError" /\ last.cfg = w.msg)
                /\ w.err \notin {None, "FormulaSyntaxError"} =>
                      last.err = "FormulaRuntimeError"

\* "1/0" was evaluated: the ZeroDivisionError of the walk came out as a
\* FormulaRuntimeError
C17_Witness ==
    /\ last.op = "evaluate"
    /\ last.args.formula.len <= 255
    /\ last.args.formula.ast.type = "BinOp"
    /\ eval_node(last.args.formula.ast, last.args.variables).err
          = "ZeroDivisionError"
    /\ last.err = "FormulaRuntimeError"

(***************************************************************************)
(* C18: a literal that is not an int or a float (a string, True/False,     *)
(* None, a complex literal) raises FormulaSyntaxError and yields no value; *)
(* int and float literals evaluate to their numeric value.                 *)
(***************************************************************************)
\* C18: the formula that is one literal evaluates to the literal's value
\* when it is an int or a float and raises FormulaSyntaxError otherwise
C18_LiteralTypes ==
    (/\ last.op = "evaluate"
     /\ last.args.formula.len <= 255
     /\ last.args.formula.ast.type = "Constant")
    => IF last.args.formula.ast.kind \in {"int", "float"}
       THEN last.err = None /\ last.ret = Number(last.args.formula.ast.value)
       ELSE last.err = "FormulaSyntaxError" /\ last.ret = NoneValue

(***************************************************************************)
(* C14: after a successful run get_result returns, for each distinct       *)
(* result-property name, the elementwise sum of the sample vectors of the  *)
(* result Properties of that name over all Regions that hold one, a vector *)
(* whose length is the Model's sample_count; on a Model with no regions it *)
(* returns an empty mapping.                                               *)
(***************************************************************************)
\* the Property objects held in the Regions of Model m
AttachedProperties(m) ==
    UNION {DictIds(regions[models[m].regions[i].id].inputs)
             \cup DictIds(regions[models[m].regions[i].id].results) :
              i \in 1..Len(models[m].regions)}

AttachedResults(m) ==
    UNION {DictIds(regions[models[m].regions[i].id].results) :
              i \in 1..Len(models[m].regions)}

\* every Property of the Model holds the values of a run
RunComplete(m) == \A p \in AttachedProperties(m) : Evaluated(props[p])

\* the values of the result Properties called name, Region after Region
TermsOf(m, name) ==
    LET regs == SelectSeq(models[m].regions,
                    LAMBDA e : DictHas(regions[e.id].results, name))
    IN [k \in 1..Len(regs) |->
          props[DictGet(regions[regs[k].id].results, name)].values]

\* the returned dict has one entry per result name, the sum of the values
\* held under the name
C14_SumOverRegions ==
    /\ {last.ret[i].key : i \in 1..Len(last.ret)}
          = {props[p].name : p \in AttachedResults(last.m)}
    /\ \A i \in 1..Len(last.ret) :
          last.ret[i].val = NumpySum(TermsOf(last.m, last.ret[i].key))

\* C14: after a run, get_result returns per result name the sum over the
\* Regions, always a vector of sample_count elements; nothing for a Model
\* without Regions
C14_SumOfLengthSampleCount ==
    (last.op = "get_result" /\ last.err = None /\ RunComplete(last.m)) =>
       /\ C14_SumOverRegions
       /\ \A i \in 1..Len(last.ret) :
             Shape(last.ret[i].val) = models[last.m].num_samples
       /\ models[last.m].regions = <<>> => last.ret = <<>>

(***************************************************************************)
(* C19: Model.deserialize(Model.serialize(M)) yields a Model with the same *)
(* name, root-seed entropy and sample count as M and the same region keys, *)
(* and for every region the same Region name, composition, input and       *)
(* result property names, distribution kinds and formulas; in the rebuilt  *)
(* Model each region's key equals that Region's name.                      *)
(***************************************************************************)
\* what the claim compares of the Properties of one dict: name, kind of
\* distribution, formula
C19_PropertiesOf(ps) ==
    [j \in 1..Len(ps) |->
        [key |-> ps[j].key, name |-> ps[j].val.name,
         distribution |-> ps[j].val.distribution,
         equation |-> ps[j].val.equation]]

\* the same of the Properties on the heap that a Region's dict holds
C19_HeldProperties(d) ==
    C19_PropertiesOf([j \in 1..Len(d) |->
                         [key |-> d[j].key, val |-> props[d[j].id]]])

\* C19: the Model rebuilt from the serialized form of a Model that was run
\* has its name, entropy, sample count, region keys, and per region the
\* name, composition, property names, kinds and formulas; every key is the
\* name of its Region
C19_RoundTrip ==
    (last.op = "round_trip" /\ RunComplete(last.m)) =>
       LET M == models[last.m]
           R == last.ret
       IN /\ last.err = None
          /\ R.name = M.name
          /\ R.entropy = M.entropy
          /\ R.num_samples = M.num_samples
          /\ Len(R.regions) = Len(M.regions)
          /\ \A i \in 1..Len(M.regions) :
                LET old == regions[M.regions[i].id]
                    new == R.regions[i].val
                IN /\ R.regions[i].key = M.regions[i].key
                   /\ new.name = old.name
                   /\ new.composition = old.composition
                   /\ C19_PropertiesOf(new.inputs)
                         = C19_HeldProperties(old.inputs)
                   /\ C19_PropertiesOf(new.results)
                         = C19_HeldProperties(old.results)
                   /\ R.regions[i].key = new.name

(***************************************************************************)
(* C20: sampling is a function of the native parameters and the seed state *)
(* only: running the calculation of the same input Property twice with the *)
(* same distribution parameters and no re-seeding in between (Model.run    *)
(* called twice with the same config) produces the same sample vector both *)
(* times.                                                                  *)
(***************************************************************************)
\* the run of this step has sampled Property object p again, with the seed
\* and the parameters its values were sampled with before
SampledAgain(p) ==
    /\ last'.op = "run" /\ last'.err = None
    /\ props[p].values.tag = "sample"
    /\ props'[p].draws # props[p].draws
    /\ props[p].values.seed = props'[p].seed
    /\ props[p].values.params = props'[p].params
    /\ props[p].values.n = props'[p].num_samples

\* C20: a Property sampled again with the same parameters and the same
\* seed holds the same sample vector as before
C20_SameSeedSameSample ==
    [][\A p \in 1..Len(props) :
          SampledAgain(p) => props'[p].values = props[p].values]_vars

(***************************************************************************)
(* C21: _intersept_kwargs called with all the friendly parameters of its   *)
(* kind returns the native parameters of the table: uniform loc = min,     *)
(* scale = max - min; normal loc = mean, scale = std; beta a, b, loc =     *)
(* min, scale = max; lognormal s = std, loc = shift, scale = exp(mean);    *)
(* triangular c = (mode - min) / (max - min), loc = min, scale = max -     *)
(* min; truncated normal a = (min - mean) / std, b = (max - mean) / std,   *)
(* loc = mean, scale = std.  It returns whenever the divisor is not zero.  *)
(* uniform(min=2, max=5) gives loc 2, scale 3 and triangular(mode=3,       *)
(* min=1, max=5) gives c 1/2, loc 1, scale 4.                              *)
(***************************************************************************)
\* the fraction q is the quotient a / b
IsQuotient(q, a, b) == q.den # 0 /\ q.num * b = q.den * a

C21_Table(name, kw, ret) ==
    CASE name = "uniform" ->
            ret = [loc |-> kw["min"], scale |-> kw["max"] - kw["min"]]
      [] name = "normal" ->
            ret = [loc |-> kw["mean"], scale |-> kw["std"]]
      [] name = "beta" ->
            ret = [a |-> kw["a"], b |-> kw["b"],
                   loc |-> kw["min"], scale |-> kw["max"]]
      [] name = "lognormal" ->
            /\ DOMAIN ret = {"s", "loc", "scale"}
            /\ ret.s = kw["std"] /\ ret.loc = kw["shift"]
            /\ ret.scale = [fn |-> "exp", of |-> kw["mean"]]
      [] name = "triangular" ->
            /\ DOMAIN ret = {"c", "loc", "scale"}
            /\ IsQuotient(ret.c, kw["mode"] - kw["min"], kw["max"] - kw["min"])
            /\ ret.loc = kw["min"] /\ ret.scale = kw["max"] - kw["min"]
      [] name = "truncated normal" ->
            /\ DOMAIN ret = {"a", "b", "loc", "scale"}
            /\ IsQuotient(ret.a, kw["min"] - kw["mean"], kw["std"])
            /\ IsQuotient(ret.b, kw["max"] - kw["mean"], kw["std"])
            /\ ret.loc = kw["mean"] /\ ret.scale = kw["std"]

\* the divisor of the quotients the table has for a kind, 1 when it has none
C21_Divisor(name, kw) ==
    CASE name = "triangular" -> kw["max"] - kw["min"]
      [] name = "truncated normal" -> kw["std"]
      [] OTHER -> 1

C21_ParameterTable ==
    (/\ last.op = "_intersept_kwargs"
     /\ DOMAIN last.args.kwargs = DISTRIBUTIONS_KWARGS[last.args.name])
    => /\ (last.err = None) <=> (C21_Divisor(last.args.name, last.args.kwargs) # 0)
       /\ last.err = None
          => C21_Table(last.args.name, last.args.kwargs, last.ret)
       /\ (last.args.name = "uniform" /\ last.args.kwargs = [min |-> 2, max |-> 5])
          => last.ret = [loc |-> 2, scale |-> 3]
       /\ (/\ last.args.name = "triangular"
           /\ last.args.kwargs = [mode |-> 3, min |-> 1, max |-> 5])
          => last.ret = [c |-> [num |-> 1, den |-> 2], loc |-> 1, scale |-> 4]

C21_Witness ==
    /\ last.op = "_intersept_kwargs"
    /\ last.args.name = "triangular"
    /\ last.args.kwargs = [mode |-> 3, min |-> 1, max |-> 5]
    /\ last.err = None
    /\ last.ret.c = [num |-> 1, den |-> 2]

(***************************************************************************)
(* C22: on a Model built only with add_regions, the k-th input Property    *)
(* attached (in the order of the Regions, and within a Region in the order *)
(* of its inputs) holds the child with spawn index k - 1 of the Model's    *)
(* root seed, and the root has spawned as many children as there are       *)
(* input Properties attached: result Properties consume no spawn.          *)
(***************************************************************************)
\* the input Property objects of the first i Regions of Model m, in order
RECURSIVE C22_Inputs(_, _)
C22_Inputs(m, i) ==
    IF i = 0 THEN <<>>
    ELSE C22_Inputs(m, i - 1)
         \o [j \in 1..Len(regions[models[m].regions[i].id].inputs) |->
               regions[models[m].regions[i].id].inputs[j].id]

C22_Holds(m, ins) ==
    /\ \A k \in 1..Len(ins) :
          props[ins[k]].seed = SpawnChild(models[m].entropy, k - 1)
    /\ models[m].n_children_spawned = Len(ins)

C22_SpawnOrder == C22_Holds(1, C22_Inputs(1, Len(models[1].regions)))

C22_Witness ==
    /\ Len(models[1].regions) = 3
    /\ Len(C22_Inputs(1, 3)) = 5
    /\ models[1].regions[1].key = "C"
    /\ C22_SpawnOrder

(***************************************************************************)
(* C23: a call of Model.add_properties that returns advances the spawn     *)
(* counter of the Model's root seed by exactly the number of input         *)
(* Properties it attaches, counted from the counter's value before the     *)
(* call; attaching a result Property consumes no spawn.                    *)
(***************************************************************************)
C23_OneSpawnPerInput ==
    [][(/\ last'.op \in {"add_properties", "add_properties_kw"}
        /\ last'.err = None)
       => models'[1].n_children_spawned =
             models[1].n_children_spawned
             + Cardinality(AttachedInputs(1)') - Cardinality(AttachedInputs(1))]_vars

(***************************************************************************)
(* C24: when Model 1 was given the Regions A and B with their Properties   *)
(* by add_regions, and Model 2 the Regions A and B without Properties and  *)
(* then the same Properties in the same order by add_properties in keyword *)
(* form (in one call or in several), every input Property of Model 2 has   *)
(* the same child seed as the input Property of Model 1 in the same place. *)
(***************************************************************************)
\* both Models are complete
C24_Built ==
    /\ Len(models[1].regions) = 2
    /\ Len(models[2].regions) = 2
    /\ EquivHeld = Len(EquivOrder)

C24_SameChildSeeds ==
    C24_Built
    => \A i \in 1..2 :
          LET r1 == regions[models[1].regions[i].id]
              r2 == regions[models[2].regions[i].id]
          IN /\ Len(r1.inputs) = Len(r2.inputs)
             /\ \A j \in 1..Len(r1.inputs) :
                   /\ r1.inputs[j].key = r2.inputs[j].key
                   /\ props[r1.inputs[j].id].seed = props[r2.inputs[j].id].seed

(***************************************************************************)
(* C25: in a Model.run that returns, every input Property of every Region  *)
(* is sampled in this run, from its own seed at the position its generator *)
(* had before the run, and every result Property holds afterwards the      *)
(* value of its formula over the sample vectors that the input Properties  *)
(* of its own Region hold after the run.                                   *)
(***************************************************************************)
C25_InputsBeforeResults ==
    [][(last'.op = "run" /\ last'.err = None)
       => \A i \in 1..Len(models[1].regions) :
             LET reg == regions[models[1].regions[i].id]
             IN /\ \A j \in 1..Len(reg.inputs) :
                      LET p == reg.inputs[j].id
                      IN /\ props'[p].values.tag = "sample"
                         /\ props'[p].values.seed = props[p].seed
                         /\ props'[p].values.pos = props[p].draws
                /\ \A j \in 1..Len(reg.results) :
                      props'[reg.results[j].id].values =
                         evaluate(props[reg.results[j].id].equation,
                                  [k \in 1..Len(reg.inputs) |->
                                     [key |-> reg.inputs[k].key,
                                      val |-> props'[reg.inputs[k].id].values]]).val]_vars

C25_Witness ==
    /\ last.op = "run"
    /\ last.err = None
    /\ Len(models[1].regions) = 2
    /\ props[3].values.tag = "binop"
    /\ props[6].values.tag = "binop"
    /\ props[3].values.left = props[1].values
    /\ props[6].values.left = props[4].values
    /\ props[1].values # props[4].values

(***************************************************************************)
(* C26: a formula whose tree contains a binary operator other than + - *   *)
(* / ** or a unary operator other than negation raises                     *)
(* FormulaSyntaxError, whatever its operands are bound to and whether or   *)
(* not the evaluation of an operand fails.                                 *)
(***************************************************************************)
\* the tree has an operator that eval_binop or eval_unaryop does not apply
RECURSIVE C26_HasUnsupported(_)
C26_HasUnsupported(tree) ==
    CASE tree.type = "BinOp" ->
            \/ tree.op \notin {"Add", "Sub", "Mult", "Div", "Pow"}
            \/ C26_HasUnsupported(tree.left)
            \/ C26_HasUnsupported(tree.right)
      [] tree.type = "UnaryOp" ->
            \/ tree.op # "USub"
            \/ C26_HasUnsupported(tree.operand)
      [] OTHER -> FALSE

C26_UnsupportedOperator ==
    (/\ last.op = "evaluate"
     /\ C26_HasUnsupported(last.args.formula.ast))
    => last.err = "FormulaSyntaxError"

(***************************************************************************)
(* C27: Model.add_properties with a keyword that names a Region the Model  *)
(* does not hold raises KeyError and leaves the Model as it was before the *)
(* call: no Property is added to a Region, no Property object is changed   *)
(* (none re-seeded) and the root seed's spawn counter is unchanged.         *)
(***************************************************************************)
C27_UnknownRegionChangesNothing ==
    [][(/\ last'.op = "add_properties_kw"
        /\ \E i \in 1..Len(last'.args) :
              last'.args[i].reg \notin DictKeys(models[1].regions))
       => /\ last'.err = "KeyError"
          /\ UNCHANGED <<regions, models>>
          /\ \A p \in 1..Len(props) : props'[p] = props[p]]_vars

(***************************************************************************)
(* C28: after Model.run succeeds, the sample vector of every input         *)
(* Property of the Model has exactly the Model's num_samples elements,     *)
(* whatever add_regions, add_properties and update(num_samples=...) calls  *)
(* came before the run.                                                    *)
(***************************************************************************)
C28_SampleCountIsTheModels ==
    (last.op = "run" /\ last.err = None) =>
       \A i \in 1..Len(models[last.m].regions) :
          LET ins == regions[models[last.m].regions[i].id].inputs
          IN \A j \in 1..Len(ins) :
                Shape(props[ins[j].id].values) = models[last.m].num_samples

(***************************************************************************)
(* C29: Simulation.add_models raises KeyError when a Model of the same     *)
(* name is already held by the Simulation, and a Model that is held is     *)
(* never replaced by a later one of its name.                              *)
(***************************************************************************)
C29_NoSilentReplace ==
    [][/\ \A key \in DictKeys(simulation.models) :
             /\ DictHas(simulation'.models, key)
             /\ DictGet(simulation'.models, key)
                   = DictGet(simulation.models, key)
       /\ (/\ last'.op = "sim_add_models"
           /\ Len(last'.args) = 1
           /\ DictHas(simulation.models, models[last'.args[1]].name))
          => last'.err = "KeyError"]_vars

(***************************************************************************)
(* C30: a Property's stats agree with its values: they are empty, or they  *)
(* are the statistics of the values the Property holds now.  After         *)
(* Model.add_regions has reset the values of a Region's input Properties,  *)
(* those Properties hold no stats and the Region's result Properties hold  *)
(* neither values nor stats.                                               *)
(***************************************************************************)
C30_ResetRegion(r) ==
    /\ \A j \in 1..Len(regions[r].inputs) :
          LET p == props[regions[r].inputs[j].id]
          IN p.values = NoValues /\ p.stats = NoStats
    /\ \A j \in 1..Len(regions[r].results) :
          LET p == props[regions[r].results[j].id]
          IN p.values = NoValues /\ p.stats = NoStats

C30_StatsAgreeWithValues ==
    /\ \A p \in 1..Len(props) :
          \/ props[p].stats = NoStats
          \/ props[p].stats = calculate_stats(NoStats, props[p].values)
    /\ (last.op = "add_regions" /\ last.err = None) =>
          \A i \in 1..Len(last.args) : C30_ResetRegion(last.args[i])

====
